---- MODULE Spec2Model ----
(***************************************************************************)
(* Model of ireflux/JSON-Formatter.                                        *)
(*                                                                         *)
(*   Spec       the lazy-diff editor session of                            *)
(*              src/composables/useMonacoEditor.js (lines 453-701)         *)
(*   AppSpec    the App.vue orchestrator (toggleDiffMode, lines 76-119)    *)
(*   ToastSpec  the toast queue of src/composables/useToast.js             *)
(*                                                                         *)
(* JavaScript is single-threaded: a function runs without interruption up  *)
(* to its next await, so every action below is one such synchronous run.   *)
(* Objects of the editor widget (widgets, text models) live in the heap    *)
(* session.res; a handle is an index into it and 0 is null.                *)
(***************************************************************************)
EXTENDS Integers, Sequences, FiniteSets, Bags, TLC

VARIABLES
    session,        \* the closure state of useMonacoEditor (lazy-diff variant)
    monacoPromise,  \* monacoLoader.js: the module-level cached promise
    inits,          \* initialize() calls suspended at `await initMonaco()`
    formats,        \* formatContent() calls suspended at `await action.run()`
    mounted,        \* the owning component is mounted (cleanup is its unmount hook)
    lastCall,       \* the last call made on the session, when the claims name it
    app,            \* App.vue: the orchestrator's state
    toast,          \* useToast: the queue's state
    debounced,      \* utils: one debounce(func, delay, immediate) wrapper
    throttled,      \* utils: one throttle(func, delay) wrapper
    clipboard,      \* useClipboard, the composable that tracks isCopying
    copier,         \* composables/useClipboard.js: its copyText calls
    json,           \* the JSON operations: the last call and its result
    idle,           \* useMonacoEditor: one bindIdleAutoFormat(editor) binding
    reporter,       \* errorHandling.js: a handleError call and what onError got
    recreate        \* the closure state of useMonacoEditor (recreate variant)

sessionVars == <<session, monacoPromise, inits, formats, mounted, lastCall>>

lateVars == <<idle, reporter, recreate>>

utilVars == <<debounced, throttled, clipboard, copier, json, lateVars>>

vars == <<sessionVars, app, toast, utilVars>>

(***************************************************************************)
(* Bounds                                                                  *)
(***************************************************************************)
MaxInit == 2            \* editors that initialize() calls create or are about to
MaxPendingFormat == 1   \* formatContent() calls in flight at once
MaxToasts == 1          \* the queue's configured maxToasts option
MaxAdds == 3            \* addToast calls that create a toast
MaxDuration == 2        \* the longest toast duration, in ticks
MaxTimedAdds == 1       \* addToast calls in the specifications with every toast operation
MaxCalls == 4           \* calls of a debounced or throttled wrapper
DebounceDelay == 2      \* the delay passed to debounce, in ticks
ThrottleDelay == 3      \* the delay passed to throttle, in ticks
MaxCopies == 3          \* copyText calls made on a clipboard composable

(***************************************************************************)
(* Editor texts                                                            *)
(***************************************************************************)
DEFAULT_JSON_CONTENT == "{\n  \"example\": \"json\"\n}"
MinifiedText == "{\"example\":\"json\"}"
Texts == {DEFAULT_JSON_CONTENT, MinifiedText}

\* editor.action.formatDocument of the widget: pretty-prints the document
\* (tabSize 2, insertSpaces: the default content is the minified text, formatted).
FormatDocument(t) == IF t = MinifiedText THEN DEFAULT_JSON_CONTENT ELSE t

(***************************************************************************)
(* The widget's objects                                                    *)
(***************************************************************************)
NoBinding == [bound |-> FALSE, timer |-> FALSE, formatting |-> FALSE]

\* bindIdleAutoFormat(editor): a fresh listener, no timer pending.
bindIdleAutoFormat == [bound |-> TRUE, timer |-> FALSE, formatting |-> FALSE]

NewObject(text) == [disposed |-> 0, text |-> text]

\* The heap: the objects created so far, per kind, in creation order.
Kinds == {"normalEditor", "normalModel", "diffEditor", "diffModel"}

\* The session's three model slots (models.normal, .diffOriginal, .diffModified)
\* and the kind of object each holds.
Slots == {"normal", "diffOriginal", "diffModified"}
ModelKind(k) == IF k = "normal" THEN "normalModel" ELSE "diffModel"

\* monaco.editor.create / createDiffEditor / createModel: a new object of kind k.
Create(s, k, text) == [s EXCEPT !.res[k] = Append(@, NewObject(text))]

\* The slots whose model the editor of kind k shows.
SlotsOf(k) == IF k = "normalEditor" THEN {"normal"} ELSE {"diffOriginal", "diffModified"}

\* Whether the object of kind k with handle h is disposed in its turn: a model
\* held in a slot after the slot's listener, the session's editor after its
\* listeners and after the models held in its slots.
InTurn(s, k, h) ==
    IF k \in {"normalModel", "diffModel"}
    THEN \A slot \in Slots :
            (ModelKind(slot) = k /\ s.models[slot] = h) => ~s.autoFormat[slot].bound
    ELSE h = s[k] =>
            \A slot \in SlotsOf(k) :
               /\ ~s.autoFormat[slot].bound
               /\ s.models[slot] # 0 => s.res[ModelKind(slot)][s.models[slot]].disposed > 0

\* x.dispose() on the object of kind k with handle h (h?.dispose(): nothing on
\* null); outOfTurn records a disposal made before what should precede it.
Dispose(s, k, h) ==
    IF h = 0 THEN s
    ELSE [s EXCEPT !.res[k][h].disposed = @ + 1, !.res[k][h].text = "",
                   !.outOfTurn = @ \/ ~InTurn(s, k, h)]

Live(s, k, h) == h # 0 /\ s.res[k][h].disposed = 0

\* model.getValue()
GetValue(s, k, h) == IF h = 0 THEN "" ELSE s.res[k][h].text

\* model.setValue(content) (a flush: the auto-format listener ignores it)
SetValue(s, k, h, content) ==
    IF h = 0 THEN s ELSE [s EXCEPT !.res[k][h].text = content]

handleError(s, context) == [s EXCEPT !.errors = @ \cup {context}]

(***************************************************************************)
(* useMonacoEditor: the session's functions, as state transformers         *)
(***************************************************************************)
\* Mutant of disposeNormalEditor: the widget is disposed before its model.
disposeNormalEditorWidgetFirst(s) ==
    LET a == [s EXCEPT !.autoFormat.normal = NoBinding]
        b == Dispose(a, "normalEditor", a.normalEditor)
        c == Dispose(b, "normalModel", b.models.normal)
    IN  [c EXCEPT !.models.normal = 0, !.normalEditor = 0]

disposeNormalEditor(s) ==
    LET a == [s EXCEPT !.autoFormat.normal = NoBinding]
        b == Dispose(a, "normalModel", a.models.normal)
        c == Dispose(b, "normalEditor", b.normalEditor)
    IN  [c EXCEPT !.models.normal = 0, !.normalEditor = 0]

\* Mutant of disposeDiffEditor: the modified model is never disposed.
disposeDiffEditorLeaksModel(s) ==
    LET a == [s EXCEPT !.autoFormat.diffOriginal = NoBinding,
                       !.autoFormat.diffModified = NoBinding]
        b == Dispose(a, "diffModel", a.models.diffOriginal)
        d == Dispose(b, "diffEditor", b.diffEditor)
    IN  [d EXCEPT !.models.diffOriginal = 0, !.models.diffModified = 0,
                  !.diffEditor = 0]

disposeDiffEditor(s) ==
    LET a == [s EXCEPT !.autoFormat.diffOriginal = NoBinding,
                       !.autoFormat.diffModified = NoBinding]
        b == Dispose(a, "diffModel", a.models.diffOriginal)
        c == Dispose(b, "diffModel", b.models.diffModified)
        d == Dispose(c, "diffEditor", c.diffEditor)
    IN  [d EXCEPT !.models.diffOriginal = 0, !.models.diffModified = 0,
                  !.diffEditor = 0]

\* The editor is created with a model of its own (option `value`), which
\* models.normal = normalEditor.getModel() then names.
createNormalEditor(s, initialValue) ==
    IF ~s.normalContainer \/ ~s.monaco THEN s
    ELSE LET d == disposeNormalEditor(s)
             e == Create(Create(d, "normalEditor", ""), "normalModel", initialValue)
         IN  [e EXCEPT !.normalEditor = Len(e.res.normalEditor),
                       !.models.normal = Len(e.res.normalModel),
                       !.autoFormat.normal = bindIdleAutoFormat]

\* Mutant of ensureDiffEditor: no `if (!diffEditor)`, a new widget and new
\* models on every entry to Diff mode.
ensureDiffEditorAlwaysCreates(s, content) ==
    IF ~s.diffContainer \/ ~s.monaco THEN s
    ELSE LET a == Create(s, "diffEditor", "")
             b == Create(a, "diffModel", content)
             e == Create(b, "diffModel", content)
         IN  [e EXCEPT !.diffEditor = Len(a.res.diffEditor),
                       !.models.diffOriginal = Len(b.res.diffModel),
                       !.models.diffModified = Len(e.res.diffModel),
                       !.autoFormat.diffOriginal = bindIdleAutoFormat,
                       !.autoFormat.diffModified = bindIdleAutoFormat]

\* Mutant of ensureDiffEditor: on reuse only the modified model is reset.
ensureDiffEditorStaleOriginal(s, content) ==
    IF ~s.diffContainer \/ ~s.monaco THEN s
    ELSE IF s.diffEditor = 0
    THEN LET a == Create(s, "diffEditor", "")
             b == Create(a, "diffModel", content)
             e == Create(b, "diffModel", content)
         IN  [e EXCEPT !.diffEditor = Len(a.res.diffEditor),
                       !.models.diffOriginal = Len(b.res.diffModel),
                       !.models.diffModified = Len(e.res.diffModel),
                       !.autoFormat.diffOriginal = bindIdleAutoFormat,
                       !.autoFormat.diffModified = bindIdleAutoFormat]
    ELSE SetValue(s, "diffModel", s.models.diffModified, content)

ensureDiffEditor(s, content) ==
    IF ~s.diffContainer \/ ~s.monaco THEN s
    ELSE IF s.diffEditor = 0
    THEN LET a == Create(s, "diffEditor", "")
             b == Create(a, "diffModel", content)
             e == Create(b, "diffModel", content)
         IN  [e EXCEPT !.diffEditor = Len(a.res.diffEditor),
                       !.models.diffOriginal = Len(b.res.diffModel),
                       !.models.diffModified = Len(e.res.diffModel),
                       !.autoFormat.diffOriginal = bindIdleAutoFormat,
                       !.autoFormat.diffModified = bindIdleAutoFormat]
    ELSE SetValue(SetValue(s, "diffModel", s.models.diffOriginal, content),
                  "diffModel", s.models.diffModified, content)

\* Mutant of toggleDiffMode: leaving Diff mode carries the original pane's text.
toggleDiffModeCarriesOriginal(s) ==
    IF s.isLoading \/ ~s.isInitialized THEN s
    ELSE IF s.isDiffMode
    THEN LET content == IF s.diffEditor # 0
                        THEN GetValue(s, "diffModel", s.models.diffOriginal)
                        ELSE ""
             a == IF s.normalEditor # 0
                  THEN SetValue(s, "normalModel", s.models.normal, content) ELSE s
         IN  [a EXCEPT !.isDiffMode = FALSE, !.isLoading = FALSE]
    ELSE LET currentValue == IF s.normalEditor # 0
                             THEN GetValue(s, "normalModel", s.models.normal)
                             ELSE DEFAULT_JSON_CONTENT
             a == ensureDiffEditor(s, currentValue)
         IN  [a EXCEPT !.isDiffMode = TRUE, !.isLoading = FALSE]

\* Mutant of toggleDiffMode: the guard tests isInitialized only.
toggleDiffModeNoLoadingGuard(s) ==
    IF ~s.isInitialized THEN s
    ELSE IF s.isDiffMode
    THEN LET content == IF s.diffEditor # 0
                        THEN GetValue(s, "diffModel", s.models.diffModified)
                        ELSE ""
             a == IF s.normalEditor # 0
                  THEN SetValue(s, "normalModel", s.models.normal, content) ELSE s
         IN  [a EXCEPT !.isDiffMode = FALSE, !.isLoading = FALSE]
    ELSE LET currentValue == IF s.normalEditor # 0
                             THEN GetValue(s, "normalModel", s.models.normal)
                             ELSE DEFAULT_JSON_CONTENT
             a == ensureDiffEditor(s, currentValue)
         IN  [a EXCEPT !.isDiffMode = TRUE, !.isLoading = FALSE]

\* Mutant of toggleDiffMode: entering Diff mode disposes the normal editor.
toggleDiffModeDisposesNormal(s) ==
    IF s.isLoading \/ ~s.isInitialized THEN s
    ELSE IF s.isDiffMode
    THEN LET content == IF s.diffEditor # 0
                        THEN GetValue(s, "diffModel", s.models.diffModified)
                        ELSE ""
             a == IF s.normalEditor # 0
                  THEN SetValue(s, "normalModel", s.models.normal, content) ELSE s
         IN  [a EXCEPT !.isDiffMode = FALSE, !.isLoading = FALSE]
    ELSE LET currentValue == IF s.normalEditor # 0
                             THEN GetValue(s, "normalModel", s.models.normal)
                             ELSE DEFAULT_JSON_CONTENT
             a == disposeNormalEditor(ensureDiffEditor(s, currentValue))
         IN  [a EXCEPT !.isDiffMode = TRUE, !.isLoading = FALSE]

\* toggleDiffMode has no await: it runs to completion in one step, so the
\* isLoading it sets is cleared again by its finally block before it returns.
toggleDiffMode(s) ==
    IF s.isLoading \/ ~s.isInitialized THEN s
    ELSE IF s.isDiffMode
    THEN LET content == IF s.diffEditor # 0
                        THEN GetValue(s, "diffModel", s.models.diffModified)
                        ELSE ""
             a == IF s.normalEditor # 0
                  THEN SetValue(s, "normalModel", s.models.normal, content) ELSE s
         IN  [a EXCEPT !.isDiffMode = FALSE, !.isLoading = FALSE]
    ELSE LET currentValue == IF s.normalEditor # 0
                             THEN GetValue(s, "normalModel", s.models.normal)
                             ELSE DEFAULT_JSON_CONTENT
             a == ensureDiffEditor(s, currentValue)
         IN  [a EXCEPT !.isDiffMode = TRUE, !.isLoading = FALSE]

\* The widget operations of toggleDiffMode that may throw.
ThrowPoints ==
    {"getValue", "setValue", "createDiffEditor", "createModelOriginal",
     "createModelModified", "setModel", "layout"}

\* ensureDiffEditor up to the widget operation `at`, which throws: the
\* assignments made before it stay.
ensureDiffEditorThrows(s, content, at) ==
    LET a == Create(s, "diffEditor", "")
        b == Create(a, "diffModel", content)
        e == Create(b, "diffModel", content)
    IN  IF at = "createDiffEditor" THEN s
        ELSE IF at = "createModelOriginal"
        THEN [a EXCEPT !.diffEditor = Len(a.res.diffEditor)]
        ELSE IF at = "createModelModified"
        THEN [b EXCEPT !.diffEditor = Len(a.res.diffEditor),
                       !.models.diffOriginal = Len(b.res.diffModel)]
        ELSE [e EXCEPT !.diffEditor = Len(a.res.diffEditor),
                       !.models.diffOriginal = Len(b.res.diffModel),
                       !.models.diffModified = Len(e.res.diffModel)]

\* Whether toggleDiffMode, called in state s, reaches the operation `at`.
Reaches(s, at) ==
    /\ ~s.isLoading /\ s.isInitialized
    /\ IF s.isDiffMode
       THEN \/ at = "getValue" /\ s.diffEditor # 0
            \/ at \in {"setValue", "layout"} /\ s.normalEditor # 0
       ELSE \/ at = "getValue" /\ s.normalEditor # 0
            \/ /\ at \in {"createDiffEditor", "createModelOriginal",
                           "createModelModified", "setModel"}
               /\ s.diffContainer /\ s.monaco /\ s.diffEditor = 0
            \/ /\ at = "setValue"
               /\ s.diffContainer /\ s.monaco /\ s.diffEditor # 0
               /\ s.models.diffOriginal # 0 \/ s.models.diffModified # 0
            \/ at = "layout" /\ ensureDiffEditor(s, "").diffEditor # 0

\* toggleDiffMode (lines 606-628) when the operation `at` throws: the catch
\* block reports the error and the finally block clears isLoading. layout is
\* the last call of either branch; getValue and setValue throw before
\* anything was assigned (setValue: the first one called).
toggleDiffModeThrows(s, at) ==
    LET currentValue == IF s.normalEditor # 0
                        THEN GetValue(s, "normalModel", s.models.normal)
                        ELSE DEFAULT_JSON_CONTENT
        a == IF at = "layout" THEN toggleDiffMode(s)
             ELSE IF s.isDiffMode \/ at \in {"getValue", "setValue"} THEN s
             ELSE ensureDiffEditorThrows(s, currentValue, at)
    IN  [handleError(a, "diff-mode-toggle") EXCEPT !.isLoading = FALSE]

cleanup(s) ==
    LET a == disposeDiffEditor(s)
        b == disposeNormalEditor(a)
    IN  [b EXCEPT !.monaco = FALSE, !.isInitialized = FALSE, !.isDiffMode = FALSE]

\* The format action's edits reach model h of slot k: a content change that
\* is not a flush, so the listener bound to the editor showing it restarts
\* its timer unless it is itself formatting.
ApplyFormat(s, k, h) ==
    IF ~Live(s, ModelKind(k), h)
       \/ FormatDocument(GetValue(s, ModelKind(k), h)) = GetValue(s, ModelKind(k), h)
    THEN s
    ELSE [s EXCEPT !.res[ModelKind(k)][h].text = FormatDocument(@),
                   !.autoFormat[k] =
                       IF s.models[k] = h /\ @.bound /\ ~@.formatting
                       THEN [@ EXCEPT !.timer = TRUE] ELSE @]

(***************************************************************************)
(* Initial state                                                           *)
(***************************************************************************)
SessionInit ==
    [isLoading |-> FALSE, isInitialized |-> FALSE, isDiffMode |-> FALSE,
     monaco |-> FALSE, normalEditor |-> 0, diffEditor |-> 0,
     normalContainer |-> FALSE, diffContainer |-> FALSE,
     autoFormat |-> [k \in Slots |-> NoBinding],
     models |-> [k \in Slots |-> 0],
     res |-> [k \in Kinds |-> <<>>], errors |-> {}, outOfTurn |-> FALSE]

NoEditor == [open |-> FALSE, value |-> ""]

\* App.vue before onMounted: no editor, loader.init() not yet called.
\* original / modified are the two text models the last setModel call created
\* (nothing in App.vue disposes them); currentValue is toggleDiffMode's local.
AppInit ==
    [pc |-> "created", isLoading |-> FALSE, isDiffMode |-> FALSE,
     monacoEditor |-> NoEditor, diffEditor |-> FALSE,
     original |-> "", modified |-> "", currentValue |-> "",
     loader |-> "none"]

\* useToast after construction. activeTimers is the Map id -> timer handle:
\* an entry is pending until its timer fires or is cleared, and the Map keeps
\* the handle of a timer that fired until clearTimer deletes it (mapped tells
\* whether the Map still holds the handle). graceTimers are the exit-transition
\* timeouts of removeToast, resetTimers those of clearAll.
ToastInit ==
    [toasts |-> <<>>, nextId |-> 1, isPaused |-> FALSE,
     activeTimers |-> {}, graceTimers |-> {}, resetTimers |-> {},
     expired |-> {}, cleanedUp |-> FALSE]

\* debounce before it is called (lines 87-89): timeoutId, lastArgs are null.
\* left is the time to the pending timeout's expiry. calls, sinceCall and log
\* record the environment: the wrapper calls made (the k-th call passes k),
\* the calls since a call last found no timeout pending (the burst), the time
\* since the last call, and the invocations of func.
DebounceInit ==
    [created |-> FALSE, immediate |-> FALSE, timeoutId |-> FALSE, left |-> 0,
     lastArgs |-> 0, calls |-> 0, burst |-> 0, sinceCall |-> 0, log |-> <<>>]

\* throttle before it is called (lines 145-146). lastCall = 0 is the epoch, so
\* the first call finds a whole delay elapsed: timeSinceLastCall is
\* Date.now() - lastCall, counted up to the delay. timers are the pending
\* timeouts; sinceInvoke is the time since func last ran, counted likewise.
ThrottleInit ==
    [timeSinceLastCall |-> ThrottleDelay, timeoutId |-> 0, timers |-> {}, calls |-> 0,
     sinceInvoke |-> ThrottleDelay, log |-> <<>>]

\* useClipboard (the composable with isCopying) before it is created. calls
\* are the copyText calls suspended at an await; returned and writes record
\* what each call returned and the clipboard writes it started.
ClipboardInit ==
    [created |-> FALSE, isSupported |-> FALSE, hasExecCommand |-> FALSE,
     isCopying |-> FALSE, lastCopiedText |-> "", nCalls |-> 0,
     calls |-> {}, returned |-> {}, writes |-> {}]

\* composables/useClipboard.js keeps no state: calls are the copyText calls
\* suspended at `await writeText`, returned what the finished ones returned.
CopierInit == [nCalls |-> 0, calls |-> {}, returned |-> {}]

\* No JSON operation has been called yet.
JsonInit == [op |-> "none"]

\* No binding made yet: the editor has the focus and one empty selection.
IdleInit ==
    [bound |-> FALSE, timerId |-> FALSE, left |-> 0, isAutoFormatting |-> FALSE,
     hasTextFocus |-> TRUE, selections |-> 1, selectionEmpty |-> TRUE,
     sinceChange |-> 0, runs |-> 0]

\* handleError has not been called.
ReporterInit ==
    [op |-> "none", name |-> "Error", context |-> <<>>, onError |-> FALSE,
     calls |-> <<>>]

\* The recreate-on-toggle composable after construction: no container, no
\* editor, the editor library not loaded. res are the widget objects created
\* so far, a handle is an index and 0 is null; calls are the initializeEditor
\* and toggleDiffMode calls suspended at an await. overlapped records that
\* cleanup was called while such a call was suspended.
RecreateInit ==
    [isDiffMode |-> FALSE, isInitialized |-> FALSE, editorContainer |-> FALSE,
     currentEditor |-> 0, currentDiffEditor |-> 0, monacoInstance |-> FALSE,
     res |-> <<>>, calls |-> {}, nCalls |-> 0,
     cleanupPending |-> FALSE, cleanedUp |-> FALSE, overlapped |-> FALSE]

\* The arguments of a call to one of the JSON functions.
JsonCall(arguments) == [op |-> "input"] @@ arguments

CoreInit ==
    /\ session = SessionInit
    /\ monacoPromise = "none"
    /\ inits = EmptyBag
    /\ formats = EmptyBag
    /\ mounted = TRUE
    /\ lastCall = "none"
    /\ app = AppInit
    /\ toast = ToastInit
    /\ debounced = DebounceInit
    /\ throttled = ThrottleInit
    /\ clipboard = ClipboardInit
    /\ copier = CopierInit
    /\ idle = IdleInit
    /\ recreate = RecreateInit

ProgramInit == CoreInit /\ reporter = ReporterInit

Init == ProgramInit /\ json = JsonInit

(***************************************************************************)
(* initialize (async): the run up to `await initMonaco()`, and the rest    *)
(***************************************************************************)
\* Lines 583-588. initMonaco returns the cached monaco, or awaits loadMonaco()
\* and assigns its result when it resumes (load = TRUE).
initializeStart(s) ==
    [s EXCEPT !.isLoading = TRUE, !.normalContainer = TRUE, !.diffContainer = TRUE]

\* Lines 478-479 and 589-595: c is the suspended call, rejected tells whether
\* the promise it awaits was rejected.
initializeResume(s, c, rejected) ==
    LET a == IF rejected THEN handleError(s, "editor-initialization")
             ELSE LET m == IF c.load THEN [s EXCEPT !.monaco = TRUE] ELSE s
                      e == createNormalEditor(m, c.initialValue)
                  IN  [e EXCEPT !.isInitialized = TRUE]
    IN  [a EXCEPT !.isLoading = FALSE]

Initialize ==
    /\ mounted
    /\ Len(session.res.normalEditor) + BagCardinality(inits) < MaxInit
    /\ \E initialValue \in Texts :
         inits' = inits (+) SetToBag({[load |-> ~session.monaco,
                                       initialValue |-> initialValue]})
    /\ session' = initializeStart(session)
    /\ monacoPromise' = IF ~session.monaco /\ monacoPromise = "none"
                        THEN "pending" ELSE monacoPromise
    /\ lastCall' = "other"
    /\ UNCHANGED <<formats, mounted, app, toast, utilVars>>

\* Lines 578-581: a container is missing.
InitializeNoContainers ==
    /\ mounted
    /\ session' = handleError(session, "editor-initialization")
    /\ lastCall' = "other"
    /\ UNCHANGED <<monacoPromise, inits, formats, mounted, app, toast, utilVars>>

\* monacoLoader.js: the dynamic imports finish, or one of them fails.
LoaderSettle ==
    /\ monacoPromise = "pending"
    /\ monacoPromise' \in {"resolved", "rejected"}
    /\ UNCHANGED <<session, inits, formats, mounted, lastCall, app, toast, utilVars>>

InitializeResume ==
    \E c \in BagToSet(inits) :
       /\ c.load => monacoPromise # "pending"
       /\ session' = initializeResume(session, c,
                                      c.load /\ monacoPromise = "rejected")
       /\ inits' = inits (-) SetToBag({c})
       /\ lastCall' = "other"
       /\ UNCHANGED <<monacoPromise, formats, mounted, app, toast, utilVars>>

(***************************************************************************)
(* toggleDiffMode, cleanup                                                 *)
(***************************************************************************)
ToggleDiffMode ==
    /\ mounted
    /\ session' = toggleDiffMode(session)
    /\ lastCall' = IF session.isLoading \/ ~session.isInitialized
                   THEN "toggleRejected"
                   ELSE IF session.isDiffMode THEN "toggleToSingle"
                   ELSE IF session.diffEditor = 0 THEN "toggleToDiff"
                   ELSE "toggleToDiffAgain"
    /\ UNCHANGED <<monacoPromise, inits, formats, mounted, app, toast, utilVars>>

\* cleanup is registered with onBeforeUnmount (line 688): it runs when the
\* component goes away, and may be called again afterwards. Calls already
\* suspended at an await still resume after it.
Cleanup ==
    /\ session' = cleanup(session)
    /\ mounted' = FALSE
    /\ lastCall' = IF mounted THEN "cleanup" ELSE "cleanupAgain"
    /\ UNCHANGED <<monacoPromise, inits, formats, app, toast, utilVars>>

(***************************************************************************)
(* formatContent (async): each `await runBuiltInFormatDocument(e)` suspends *)
(***************************************************************************)
\* Lines 632-640: the first await, or the synchronous return of ''.
formatContentStart(s) ==
    IF s.isDiffMode /\ s.diffEditor # 0
    THEN SetToBag({[slot |-> "diffOriginal", target |-> s.models.diffOriginal]})
    ELSE IF s.normalEditor = 0 THEN EmptyBag
    ELSE SetToBag({[slot |-> "normal", target |-> s.models.normal]})

\* Lines 634-645: the awaited format action has edited c.target; the code then
\* dereferences the closure's diffEditor / normalEditor again, which throws a
\* TypeError into the catch block when cleanup has nulled it meanwhile.
formatContentResume(s, c) ==
    LET a == ApplyFormat(s, c.slot, c.target)
    IN  IF c.slot = "normal"
        THEN IF a.normalEditor = 0 THEN handleError(a, "json-formatting") ELSE a
        ELSE IF a.diffEditor = 0 THEN handleError(a, "json-formatting") ELSE a

formatContentNext(s, c) ==
    IF c.slot = "diffOriginal" /\ s.diffEditor # 0
    THEN SetToBag({[slot |-> "diffModified", target |-> s.models.diffModified]})
    ELSE EmptyBag

FormatContent ==
    /\ mounted /\ BagCardinality(formats) < MaxPendingFormat
    /\ formats' = formats (+) formatContentStart(session)
    /\ lastCall' = "other"
    /\ UNCHANGED <<session, monacoPromise, inits, mounted, app, toast, utilVars>>

FormatContentResume ==
    \E c \in BagToSet(formats) :
       /\ session' = formatContentResume(session, c)
       /\ formats' = (formats (-) SetToBag({c})) (+) formatContentNext(session', c)
       /\ lastCall' = "other"
       /\ UNCHANGED <<monacoPromise, inits, mounted, app, toast, utilVars>>

(***************************************************************************)
(* The user types; idle auto-format (bindIdleAutoFormat, lines 500-538)    *)
(***************************************************************************)
\* The onDidChangeModelContent listener (lines 506-527) on a user edit.
onDidChangeModelContent(b) ==
    IF ~b.bound \/ b.formatting THEN b ELSE [b EXCEPT !.timer = TRUE]

Edit ==
    /\ mounted
    /\ \E k \in Slots, t \in Texts :
         /\ Live(session, ModelKind(k), session.models[k])
         /\ t # GetValue(session, ModelKind(k), session.models[k])
         /\ session' = [session EXCEPT
                          !.res[ModelKind(k)][session.models[k]].text = t,
                          !.autoFormat[k] = onDidChangeModelContent(@)]
    /\ lastCall' = "other"
    /\ UNCHANGED <<monacoPromise, inits, formats, mounted, app, toast, utilVars>>

\* The debounce timer fires (lines 514-526); shouldAutoFormat is the editor's
\* focus and selection at that moment, which the user decides.
AutoFormatTimer ==
    /\ \E k \in Slots, shouldAutoFormat \in BOOLEAN :
         /\ session.autoFormat[k].timer
         /\ session' = [session EXCEPT
                          !.autoFormat[k].timer = FALSE,
                          !.autoFormat[k].formatting = @ \/ shouldAutoFormat]
    /\ lastCall' = "other"
    /\ UNCHANGED <<monacoPromise, inits, formats, mounted, app, toast, utilVars>>

\* The auto-format's action.run() settles (lines 520-525).
AutoFormatDone ==
    /\ \E k \in Slots :
         /\ session.autoFormat[k].formatting
         /\ session' = [ApplyFormat(session, k, session.models[k]) EXCEPT
                          !.autoFormat[k].formatting = FALSE]
    /\ lastCall' = "other"
    /\ UNCHANGED <<monacoPromise, inits, formats, mounted, app, toast, utilVars>>

Next ==
    \/ Initialize
    \/ InitializeNoContainers
    \/ LoaderSettle
    \/ InitializeResume
    \/ ToggleDiffMode
    \/ Cleanup
    \/ FormatContent
    \/ FormatContentResume
    \/ Edit
    \/ AutoFormatTimer
    \/ AutoFormatDone

Spec == Init /\ [][Next]_vars

\* A toggle in which a widget operation throws.
ToggleDiffModeThrows ==
    /\ mounted
    /\ \E at \in ThrowPoints :
          /\ Reaches(session, at)
          /\ session' = toggleDiffModeThrows(session, at)
    /\ lastCall' = "toggleThrew"
    /\ UNCHANGED <<monacoPromise, inits, formats, mounted, app, toast, utilVars>>

\* The session with widget operations that may throw in toggleDiffMode.
ThrowNext == Next \/ ToggleDiffModeThrows

ThrowSpec == Init /\ [][ThrowNext]_vars

(***************************************************************************)
(* useMonacoEditor, the variant that recreates the editor on every toggle  *)
(* (lines 24-437) (RecreateSpec)                                           *)
(*                                                                         *)
(* The model of a standard editor is created and disposed by the editor    *)
(* itself and is not counted apart; the two models of the diff editor are  *)
(* created by toggleDiffMode with createModel and are objects of their own.*)
(***************************************************************************)
\* initializeEditor and toggleDiffMode calls made on one composable.
MaxRecreateCalls == 3

\* editor.dispose() / diffEditor.dispose() through a reference.
recreateDispose(r, h) ==
    IF h = 0 THEN r ELSE [r EXCEPT !.res[h].disposed = @ + 1]

\* monaco.editor.create, createDiffEditor, createModel.
recreateNew(r, kind) == [r EXCEPT !.res = Append(@, [kind |-> kind, disposed |-> 0])]

\* cleanupCurrentEditor (lines 360-403) has no await inside: the listeners
\* and the editor of each non-null reference are disposed, the reference is
\* nulled.
cleanupCurrentEditor(r) ==
    [recreateDispose(recreateDispose(r, r.currentEditor), r.currentDiffEditor)
        EXCEPT !.currentEditor = 0, !.currentDiffEditor = 0]

Suspended(r, op) ==
    [r EXCEPT !.nCalls = @ + 1,
              !.calls = @ \cup {[id |-> r.nCalls + 1, op |-> op, pc |-> "create",
                                 diff |-> FALSE, made |-> 0]}]

\* initializeEditor (lines 225-242) up to `await cleanupCurrentEditor()`.
initializeEditor(r, container) ==
    IF ~container THEN r
    ELSE Suspended(cleanupCurrentEditor([r EXCEPT !.editorContainer = TRUE]),
                   "initializeEditor")

\* toggleDiffMode (lines 249-278) up to `await cleanupCurrentEditor()`.
recreateToggleDiffMode(r) ==
    IF ~r.editorContainer THEN r
    ELSE Suspended(cleanupCurrentEditor([r EXCEPT !.isDiffMode = ~@]),
                   "toggleDiffMode")

\* The call resumes after cleanupCurrentEditor (and nextTick), reads
\* isDiffMode and calls createDiffEditor or createEditor (lines 61-108):
\* initializeMonaco loads the library if it is not cached, and the editor is
\* created; the call is suspended again until the wrapper's promise resolves.
recreateCreate(r, c) ==
    LET a == recreateNew(r, IF r.isDiffMode THEN "diffEditor" ELSE "editor")
    IN  [a EXCEPT !.monacoInstance = TRUE, !.isInitialized = TRUE,
                  !.calls = (@ \ {c}) \cup
                            {[c EXCEPT !.pc = "assign", !.diff = r.isDiffMode,
                                       !.made = Len(a.res)]}]

\* The created editor is assigned to the reference of its kind (lines 238,
\* 240, 263, 274); toggleDiffMode then creates the two models of a diff
\* editor and sets them (lines 265-271).
recreateAssign(r, c) ==
    LET a == [r EXCEPT !.calls = @ \ {c}]
    IN  IF ~c.diff THEN [a EXCEPT !.currentEditor = c.made]
        ELSE LET b == [a EXCEPT !.currentDiffEditor = c.made]
             IN  IF c.op = "toggleDiffMode" /\ b.monacoInstance
                 THEN recreateNew(recreateNew(b, "model"), "model")
                 ELSE b

\* cleanup (lines 408-412) up to `await cleanupCurrentEditor()`, and after it.
recreateCleanup(r) ==
    [cleanupCurrentEditor(r) EXCEPT !.cleanupPending = TRUE,
                                    !.overlapped = r.calls # {}]

recreateCleanupResume(r) ==
    [r EXCEPT !.monacoInstance = FALSE, !.isInitialized = FALSE,
              !.cleanupPending = FALSE, !.cleanedUp = TRUE]

RecreateUnchanged ==
    UNCHANGED <<sessionVars, app, toast, debounced, throttled, clipboard, copier, json,
                idle, reporter>>

\* The component calls initializeEditor(container), with or without a
\* container, until it unmounts.
InitializeEditor ==
    /\ ~recreate.cleanupPending /\ ~recreate.cleanedUp
    /\ recreate.nCalls < MaxRecreateCalls
    /\ \E container \in BOOLEAN : recreate' = initializeEditor(recreate, container)
    /\ RecreateUnchanged

RecreateToggleDiffMode ==
    /\ ~recreate.cleanupPending /\ ~recreate.cleanedUp
    /\ recreate.nCalls < MaxRecreateCalls
    /\ recreate' = recreateToggleDiffMode(recreate)
    /\ RecreateUnchanged

RecreateCreate ==
    /\ \E c \in recreate.calls :
          c.pc = "create" /\ recreate' = recreateCreate(recreate, c)
    /\ RecreateUnchanged

RecreateAssign ==
    /\ \E c \in recreate.calls :
          c.pc = "assign" /\ recreate' = recreateAssign(recreate, c)
    /\ RecreateUnchanged

\* onBeforeUnmount(cleanup), line 415.
RecreateCleanup ==
    /\ ~recreate.cleanupPending /\ ~recreate.cleanedUp
    /\ recreate.editorContainer
    /\ recreate' = recreateCleanup(recreate)
    /\ RecreateUnchanged

RecreateCleanupResume ==
    /\ recreate.cleanupPending
    /\ recreate' = recreateCleanupResume(recreate)
    /\ RecreateUnchanged

RecreateNext ==
    \/ InitializeEditor
    \/ RecreateToggleDiffMode
    \/ RecreateCreate
    \/ RecreateAssign
    \/ RecreateCleanup
    \/ RecreateCleanupResume

RecreateSpec == Init /\ [][RecreateNext]_vars

(***************************************************************************)
(* App.vue: the orchestrator (AppSpec)                                     *)
(***************************************************************************)
Pretty4Text == "{\n    \"example\": \"json\"\n}"
AppTexts == Texts \cup {Pretty4Text}

\* JSON.stringify(JSON.parse(t), null, 4): every text of AppTexts is the same
\* JSON value.
AppFormat(t) == Pretty4Text

\* loader.init() of @monaco-editor/loader: the first call starts the load,
\* every call returns the same promise.
loaderInit(l) == IF l = "none" THEN "pending" ELSE l

\* onMounted, lines 150-153, up to the await inside createEditor.
appMounted(a) ==
    [a EXCEPT !.isLoading = TRUE, !.loader = loaderInit(@), !.pc = "mounting"]

\* onMounted, lines 153-161: createEditor returned or threw.
appMountedResume(a) ==
    LET b == IF a.loader = "resolved"
             THEN [a EXCEPT !.monacoEditor =
                      [open |-> TRUE, value |-> DEFAULT_JSON_CONTENT]]
             ELSE a
    IN  [b EXCEPT !.isLoading = FALSE, !.pc = "idle"]

\* toggleDiffMode, lines 90-93: the guard, then `await loader.init()`.
appToggleStart(a) ==
    IF a.isLoading THEN a
    ELSE [a EXCEPT !.isLoading = TRUE, !.loader = loaderInit(@),
                   !.pc = "toggleInit"]

\* toggleDiffMode, lines 93-111: after loader.init(), up to the await of
\* createEditor() or createDiffEditor(). A rejected loader.init() throws out of
\* toggleDiffMode, which has no try block.
appToggleAfterInit(a) ==
    IF a.loader = "rejected" THEN [a EXCEPT !.pc = "idle"]
    ELSE IF a.isDiffMode
    THEN [a EXCEPT !.diffEditor = FALSE, !.pc = "createEditor"]
    ELSE [a EXCEPT !.currentValue = IF a.monacoEditor.open
                                    THEN a.monacoEditor.value
                                    ELSE DEFAULT_JSON_CONTENT,
                   !.monacoEditor = NoEditor,
                   !.pc = "createDiffEditor"]

\* toggleDiffMode, lines 101 and 111-118: the created editor arrives.
appToggleAfterCreate(a) ==
    LET b == IF a.pc = "createEditor"
             THEN [a EXCEPT !.monacoEditor =
                      [open |-> TRUE, value |-> DEFAULT_JSON_CONTENT]]
             ELSE [a EXCEPT !.diffEditor = TRUE,
                            !.original = a.currentValue,
                            !.modified = a.currentValue]
    IN  [b EXCEPT !.isDiffMode = ~a.isDiffMode, !.isLoading = FALSE,
                  !.currentValue = "", !.pc = "idle"]

\* formatJson, lines 188-227 (every text here parses).
appFormatJson(a) ==
    IF a.isDiffMode /\ a.diffEditor
    THEN [a EXCEPT !.original = AppFormat(@), !.modified = AppFormat(@)]
    ELSE IF a.monacoEditor.open
    THEN [a EXCEPT !.monacoEditor.value = AppFormat(@)]
    ELSE a

AppMounted ==
    /\ app.pc = "created"
    /\ app' = appMounted(app)
    /\ UNCHANGED <<sessionVars, toast, utilVars>>

AppLoaderSettle ==
    /\ app.loader = "pending"
    /\ \E r \in {"resolved", "rejected"} : app' = [app EXCEPT !.loader = r]
    /\ UNCHANGED <<sessionVars, toast, utilVars>>

AppMountedResume ==
    /\ app.pc = "mounting" /\ app.loader # "pending"
    /\ app' = appMountedResume(app)
    /\ UNCHANGED <<sessionVars, toast, utilVars>>

AppToggleDiffMode ==
    /\ app.pc # "created"
    /\ app' = appToggleStart(app)
    /\ UNCHANGED <<sessionVars, toast, utilVars>>

AppToggleAfterInit ==
    /\ app.pc = "toggleInit" /\ app.loader # "pending"
    /\ app' = appToggleAfterInit(app)
    /\ UNCHANGED <<sessionVars, toast, utilVars>>

AppToggleAfterCreate ==
    /\ app.pc \in {"createEditor", "createDiffEditor"}
    /\ app' = appToggleAfterCreate(app)
    /\ UNCHANGED <<sessionVars, toast, utilVars>>

AppFormatJson ==
    /\ app.pc # "created"
    /\ app' = appFormatJson(app)
    /\ UNCHANGED <<sessionVars, toast, utilVars>>

\* The user types in the single editor or in a pane of the diff editor.
AppEdit ==
    /\ \E t \in AppTexts :
         \/ /\ app.monacoEditor.open
            /\ app' = [app EXCEPT !.monacoEditor.value = t]
         \/ /\ app.diffEditor
            /\ app' = [app EXCEPT !.original = t]
         \/ /\ app.diffEditor
            /\ app' = [app EXCEPT !.modified = t]
    /\ UNCHANGED <<sessionVars, toast, utilVars>>

AppNext ==
    \/ AppMounted
    \/ AppLoaderSettle
    \/ AppMountedResume
    \/ AppToggleDiffMode
    \/ AppToggleAfterInit
    \/ AppToggleAfterCreate
    \/ AppFormatJson
    \/ AppEdit

AppSpec == Init /\ [][AppNext]_vars

\* The loader's promise settles and every continuation waiting for a settled
\* promise is run by the event loop.
AppLiveSpec ==
    /\ AppSpec
    /\ WF_vars(AppLoaderSettle)
    /\ WF_vars(AppMountedResume)
    /\ WF_vars(AppToggleAfterInit)
    /\ WF_vars(AppToggleAfterCreate)

(***************************************************************************)
(* useToast: the toast queue (ToastSpec)                                   *)
(*                                                                         *)
(* Time is counted in ticks of one exit transition (300 ms); a timer       *)
(* carries the ticks left until it fires, and time advances only when no   *)
(* pending timer is due.                                                   *)
(***************************************************************************)
ExitDelay == 1

IndexOf(q, id) ==
    IF \E i \in 1..Len(q.toasts) : q.toasts[i].id = id
    THEN CHOOSE i \in 1..Len(q.toasts) : q.toasts[i].id = id
    ELSE 0

\* clearTimer: clearTimeout on the handle the Map holds for id, and the entry
\* deleted.
clearTimer(q, id) ==
    [q EXCEPT !.activeTimers = {e \in @ : e.id # id \/ ~e.mapped}]

\* scheduleRemoval: a new timeout of `duration`, whose handle replaces the
\* Map's entry for id. It cancels nothing: a pending timer whose handle it
\* overwrites keeps running, out of the Map's reach.
scheduleRemoval(q, id, duration) ==
    [q EXCEPT !.activeTimers =
        {e \in @ : e.id # id \/ ~e.mapped}
        \cup {[e EXCEPT !.mapped = FALSE] :
                 e \in {x \in @ : x.id = id /\ x.mapped /\ x.pending}}
        \cup {[id |-> id, left |-> duration, duration |-> duration,
               pending |-> TRUE, mapped |-> TRUE, by |-> ""]}]

\* The timer scheduleRemoval has just set for id, marked with its caller.
ScheduledBy(q, id, caller) ==
    [q EXCEPT !.activeTimers =
        {IF e.id = id /\ e.mapped /\ e.pending THEN [e EXCEPT !.by = caller]
         ELSE e : e \in @}]

\* Mutant of removeToast: the toast is hidden, and never spliced out.
removeToastNeverDrops(q, id) ==
    LET index == IndexOf(q, id)
    IN  IF index = 0 THEN q
        ELSE [clearTimer(q, id) EXCEPT !.toasts[index].visible = FALSE]

removeToast(q, id) ==
    LET index == IndexOf(q, id)
    IN  IF index = 0 THEN q
        ELSE [clearTimer(q, id) EXCEPT
                 !.toasts[index].visible = FALSE,
                 !.graceTimers = @ \cup {[id |-> id, left |-> ExitDelay]}]

\* Mutant of the timeout callback: isPaused is not tested.
removalCallbackIgnoresPause(q, id, duration) ==
    [removeToast(q, id) EXCEPT
        !.expired = IF IndexOf(q, id) # 0 /\ q.toasts[IndexOf(q, id)].visible
                    THEN @ \cup {id} ELSE @]

\* The timeout callback of scheduleRemoval (lines 156-163). expired records
\* the visible toasts a timer expiry has hidden, until they are dropped.
removalCallback(q, id, duration) ==
    IF ~q.isPaused
    THEN [removeToast(q, id) EXCEPT
             !.expired = IF IndexOf(q, id) # 0 /\ q.toasts[IndexOf(q, id)].visible
                         THEN @ \cup {id} ELSE @]
    ELSE ScheduledBy(scheduleRemoval(q, id, duration), id, "paused")

\* The timeout callback of removeToast (lines 140-145).
graceCallback(q, id) ==
    LET index == IndexOf(q, id)
    IN  IF index = 0 THEN q
        ELSE [q EXCEPT !.toasts = SubSeq(@, 1, index - 1)
                                  \o SubSeq(@, index + 1, Len(@)),
                       !.expired = @ \ {id}]

\* Of the toast object's fields the queue reads only id, visible and
\* persistent; the duration lives on in the timer that addToast schedules.
createToast(q, duration, persistent) ==
    [id |-> q.nextId, visible |-> TRUE, persistent |-> persistent]

addToast(q, message, duration, persistent) ==
    IF message = "" THEN q
    ELSE LET new == createToast(q, duration, persistent)
             a == [q EXCEPT !.nextId = @ + 1]
             b == IF Len(a.toasts) >= MaxToasts
                  THEN removeToast(a, a.toasts[1].id) ELSE a
             c == [b EXCEPT !.toasts = Append(@, new)]
         IN  IF ~new.persistent /\ duration > 0
             THEN ScheduledBy(scheduleRemoval(c, new.id, duration),
                              new.id, "addToast")
             ELSE c

pauseTimers(q) == [q EXCEPT !.isPaused = TRUE]

resumeTimers(q) == [q EXCEPT !.isPaused = FALSE]

\* clearAll (lines 198-214): every timer of the Map cleared, every toast
\* hidden, and the array reset after the exit transition.
clearAll(q) ==
    [q EXCEPT !.activeTimers = {e \in @ : ~e.mapped},
              !.toasts = [i \in 1..Len(@) |-> [@[i] EXCEPT !.visible = FALSE]],
              !.resetTimers = @ \cup {[left |-> ExitDelay]}]

\* The timeout callback of clearAll (lines 211-213).
resetCallback(q) == [q EXCEPT !.toasts = <<>>, !.expired = {}]

\* The `updates` objects of updateToast: a record with the fields it sets.
Updates ==
    {[message |-> "edited"]}
    \cup {[duration |-> d] : d \in 0..MaxDuration}
    \cup {[persistent |-> b] : b \in BOOLEAN}
    \cup {[duration |-> d, persistent |-> b] : d \in 0..MaxDuration, b \in BOOLEAN}

\* Mutant of updateToast: the new timer is scheduled but the old one is not
\* cleared.
updateToastKeepsTimer(q, id, updates) ==
    LET index == IndexOf(q, id)
    IN  IF index = 0 THEN q
        ELSE LET a == [q EXCEPT !.toasts[index].persistent =
                                    IF "persistent" \in DOMAIN updates
                                    THEN updates.persistent ELSE @]
             IN  IF "duration" \in DOMAIN updates /\ ~a.toasts[index].persistent
                 THEN ScheduledBy(scheduleRemoval(a, id, updates.duration),
                                  id, "updateToast")
                 ELSE a

\* updateToast (lines 222-233): Object.assign, then the timer rescheduled when
\* the patch has a duration and the patched toast is not persistent.
updateToast(q, id, updates) ==
    LET index == IndexOf(q, id)
    IN  IF index = 0 THEN q
        ELSE LET a == [q EXCEPT !.toasts[index].persistent =
                                    IF "persistent" \in DOMAIN updates
                                    THEN updates.persistent ELSE @]
             IN  IF "duration" \in DOMAIN updates /\ ~a.toasts[index].persistent
                 THEN ScheduledBy(scheduleRemoval(clearTimer(a, id), id,
                                                  updates.duration),
                                  id, "updateToast")
                 ELSE a

PendingTimers(q) ==
    {e \in q.activeTimers : e.pending} \cup q.graceTimers \cup q.resetTimers

\* addToast(message, type, options), while fewer than n toasts were created.
AddToastUpTo(n) ==
    /\ \E message \in {"", "message"}, duration \in 0..MaxDuration,
          persistent \in BOOLEAN :
         /\ message # "" => toast.nextId <= n
         /\ toast' = addToast(toast, message, duration, persistent)
    /\ UNCHANGED <<sessionVars, app, utilVars>>

AddToast == AddToastUpTo(MaxAdds)

AddTimedToast == AddToastUpTo(MaxTimedAdds)

\* The user dismisses a toast, or the owner calls removeToast(id).
RemoveToast ==
    /\ \E id \in 1..(toast.nextId - 1) : toast' = removeToast(toast, id)
    /\ UNCHANGED <<sessionVars, app, utilVars>>

PauseTimers ==
    /\ toast' = pauseTimers(toast)
    /\ UNCHANGED <<sessionVars, app, utilVars>>

ResumeTimers ==
    /\ toast' = resumeTimers(toast)
    /\ UNCHANGED <<sessionVars, app, utilVars>>

ClearAll ==
    /\ toast' = clearAll(toast)
    /\ UNCHANGED <<sessionVars, app, utilVars>>

\* The call updateToast(id, updates).
UpdateToastCall(id, updates) ==
    /\ toast' = updateToast(toast, id, updates)
    /\ UNCHANGED <<sessionVars, app, utilVars>>

UpdateToast ==
    \E id \in 1..(toast.nextId - 1), updates \in Updates :
        UpdateToastCall(id, updates)

\* A removal timer whose time has come fires; the Map keeps its handle.
RemovalTimerFires ==
    /\ \E e \in toast.activeTimers :
         /\ e.pending /\ e.left = 0
         /\ toast' = removalCallback(
                         [toast EXCEPT !.activeTimers =
                             (@ \ {e}) \cup
                             {[x EXCEPT !.pending = FALSE, !.duration = 0, !.by = ""] : x \in {e} \cap
                                  {y \in toast.activeTimers : y.mapped}}],
                         e.id, e.duration)
    /\ UNCHANGED <<sessionVars, app, utilVars>>

GraceTimerFires ==
    /\ \E e \in toast.graceTimers :
         /\ e.left = 0
         /\ toast' = graceCallback([toast EXCEPT !.graceTimers = @ \ {e}], e.id)
    /\ UNCHANGED <<sessionVars, app, utilVars>>

ResetTimerFires ==
    /\ \E e \in toast.resetTimers :
         /\ e.left = 0
         /\ toast' = resetCallback([toast EXCEPT !.resetTimers = @ \ {e}])
    /\ UNCHANGED <<sessionVars, app, utilVars>>

\* One tick passes: no pending timer is due, and every one comes a tick closer.
Tick ==
    /\ PendingTimers(toast) # {}
    /\ \A e \in PendingTimers(toast) : e.left > 0
    /\ toast' = [toast EXCEPT
                   !.activeTimers = {IF e.pending THEN [e EXCEPT !.left = @ - 1]
                                     ELSE e : e \in @},
                   !.graceTimers = {[e EXCEPT !.left = @ - 1] : e \in @},
                   !.resetTimers = {[e EXCEPT !.left = @ - 1] : e \in @}]
    /\ UNCHANGED <<sessionVars, app, utilVars>>

ToastNext ==
    \/ AddToast
    \/ RemoveToast
    \/ PauseTimers
    \/ ResumeTimers
    \/ RemovalTimerFires
    \/ GraceTimerFires
    \/ Tick

ToastSpec == Init /\ [][ToastNext]_vars

\* Every operation of the queue on its first toasts: updateToast and clearAll
\* as well.
ToastTimerNext ==
    \/ AddTimedToast
    \/ RemoveToast
    \/ PauseTimers
    \/ ResumeTimers
    \/ ClearAll
    \/ UpdateToast
    \/ RemovalTimerFires
    \/ GraceTimerFires
    \/ ResetTimerFires
    \/ Tick

ToastTimerSpec == Init /\ [][ToastTimerNext]_vars

\* cleanup (lines 371-381): clearTimeout on every handle of the Map, the Map
\* and the array emptied. The timeouts of removeToast and clearAll, and a
\* removal timer whose handle the Map no longer holds, are out of its reach.
toastCleanup(q) ==
    [q EXCEPT !.activeTimers = {e \in @ : ~e.mapped},
              !.toasts = <<>>, !.isPaused = FALSE, !.expired = {},
              !.cleanedUp = TRUE]

\* The owning component unmounts.
ToastCleanup ==
    /\ ~toast.cleanedUp
    /\ toast' = toastCleanup(toast)
    /\ UNCHANGED <<sessionVars, app, utilVars>>

\* The queue until its owner unmounts, and its timers after that.
ToastCleanupNext ==
    \/ /\ ~toast.cleanedUp
       /\ \/ AddTimedToast
          \/ RemoveToast
          \/ PauseTimers
          \/ ResumeTimers
          \/ ClearAll
          \/ UpdateToast
    \/ ToastCleanup
    \/ RemovalTimerFires
    \/ GraceTimerFires
    \/ ResetTimerFires
    \/ Tick

ToastCleanupSpec == Init /\ [][ToastCleanupNext]_vars

\* The queue with updateToast and without clearAll.
ToastUpdateNext ==
    \/ AddTimedToast
    \/ RemoveToast
    \/ PauseTimers
    \/ ResumeTimers
    \/ UpdateToast
    \/ RemovalTimerFires
    \/ GraceTimerFires
    \/ Tick

ToastUpdateSpec == Init /\ [][ToastUpdateNext]_vars

\* The queue left to its timers: a timeout that is due runs, and time passes.
\* No updateToast call is made here (each one restarts its toast's duration).
ToastLiveNext ==
    \/ AddTimedToast
    \/ RemoveToast
    \/ PauseTimers
    \/ ResumeTimers
    \/ ClearAll
    \/ RemovalTimerFires
    \/ GraceTimerFires
    \/ ResetTimerFires
    \/ Tick

ToastLiveSpec ==
    /\ Init
    /\ [][ToastLiveNext]_vars
    /\ WF_vars(RemovalTimerFires)
    /\ WF_vars(GraceTimerFires)
    /\ WF_vars(ResetTimerFires)
    /\ WF_vars(Tick)

(***************************************************************************)
(* debounce(func, delay, immediate): the wrapper, cancel and flush         *)
(***************************************************************************)
\* func.apply(lastThis, lastArgs); by names the place of the call.
applyFunc(d, by) == [d EXCEPT !.log = Append(@, [args |-> d.lastArgs, by |-> by])]

\* debounce(func, delay, immediate) returns a wrapper with nothing pending.
debounce(immediate) == [DebounceInit EXCEPT !.created = TRUE, !.immediate = immediate]

debouncedCallKeepsTimer(d, args) ==
    LET callNow == d.immediate /\ ~d.timeoutId
        d1 == [d EXCEPT !.lastArgs = args, !.calls = @ + 1, !.sinceCall = 0,
                        !.burst = IF d.timeoutId THEN @ + 1 ELSE 1,
                        !.timeoutId = TRUE,
                        !.left = IF d.timeoutId THEN @ ELSE DebounceDelay]
    IN  IF callNow THEN applyFunc(d1, "leading") ELSE d1

\* debounced(...args): remember the arguments, replace the pending timeout
\* by one a whole delay away, and call func now on the leading edge.
debouncedCall(d, args) ==
    LET callNow == d.immediate /\ ~d.timeoutId
        d1 == [d EXCEPT !.lastArgs = args, !.calls = @ + 1, !.sinceCall = 0,
                        !.burst = IF d.timeoutId THEN @ + 1 ELSE 1,
                        !.timeoutId = TRUE, !.left = DebounceDelay]
    IN  IF callNow THEN applyFunc(d1, "leading") ELSE d1

\* The timeout's callback: timeoutId = null, and func on the trailing edge.
debounceTimeout(d) ==
    LET d1 == [d EXCEPT !.timeoutId = FALSE, !.left = 0]
    IN  IF ~d.immediate THEN applyFunc(d1, "timer") ELSE d1

\* debounced.cancel()
cancel(d) ==
    IF d.timeoutId THEN [d EXCEPT !.timeoutId = FALSE, !.left = 0] ELSE d

\* debounced.flush()
flush(d) ==
    IF d.timeoutId
    THEN applyFunc([d EXCEPT !.timeoutId = FALSE, !.left = 0], "flush")
    ELSE d

CreateDebounce ==
    /\ ~debounced.created
    /\ \E immediate \in BOOLEAN : debounced' = debounce(immediate)
    /\ UNCHANGED <<sessionVars, app, toast, throttled, clipboard, copier, json, lateVars>>

DebouncedCall ==
    /\ debounced.created
    /\ debounced.calls < MaxCalls
    /\ debounced' = debouncedCall(debounced, debounced.calls + 1)
    /\ UNCHANGED <<sessionVars, app, toast, throttled, clipboard, copier, json, lateVars>>

DebounceCancel ==
    /\ debounced.created
    /\ debounced' = cancel(debounced)
    /\ UNCHANGED <<sessionVars, app, toast, throttled, clipboard, copier, json, lateVars>>

DebounceFlush ==
    /\ debounced.created
    /\ debounced' = flush(debounced)
    /\ UNCHANGED <<sessionVars, app, toast, throttled, clipboard, copier, json, lateVars>>

DebounceTimerFires ==
    /\ debounced.timeoutId
    /\ debounced.left = 0
    /\ debounced' = debounceTimeout(debounced)
    /\ UNCHANGED <<sessionVars, app, toast, throttled, clipboard, copier, json, lateVars>>

\* One tick passes; a timeout that is due runs before time moves on.
DebounceTick ==
    /\ debounced.created
    /\ debounced.timeoutId => debounced.left > 0
    /\ debounced' =
         [debounced EXCEPT !.left = IF debounced.timeoutId THEN @ - 1 ELSE @,
                           !.sinceCall = IF @ > DebounceDelay THEN @ ELSE @ + 1]
    /\ UNCHANGED <<sessionVars, app, toast, throttled, clipboard, copier, json, lateVars>>

DebounceNext ==
    \/ CreateDebounce
    \/ DebouncedCall
    \/ DebounceCancel
    \/ DebounceFlush
    \/ DebounceTimerFires
    \/ DebounceTick

DebounceSpec == Init /\ [][DebounceNext]_vars

(***************************************************************************)
(* throttle(func, delay): the wrapper and its timeout                      *)
(***************************************************************************)
\* callFunction of a wrapper call made `age` ago: lastCall = now is the time
\* of that call, not the time callFunction runs; then func.apply(this, args).
callFunction(t, args, age) ==
    [t EXCEPT !.timeSinceLastCall = age, !.sinceInvoke = 0,
              !.log = Append(@, args)]

\* clearTimeout(timeoutId): the handle's timeout, when it is still pending.
clearTimeout(t) == [t EXCEPT !.timers = {e \in @ : e.id # t.timeoutId}]

\* setTimeout(callFunction, delay - timeSinceLastCall) by the call with args.
setTimeout(t, args) ==
    [t EXCEPT !.timeoutId = t.calls,
              !.timers = @ \cup {[id |-> t.calls, args |-> args,
                                  left |-> ThrottleDelay - t.timeSinceLastCall,
                                  wait |-> ThrottleDelay - t.timeSinceLastCall]}]

throttledCallKeepsTimers(t, args) ==
    LET t1 == [t EXCEPT !.calls = @ + 1]
    IN  IF t.timeSinceLastCall >= ThrottleDelay
        THEN callFunction(t1, args, 0)
        ELSE setTimeout(t1, args)

\* The wrapper throttle returns: run func now when a whole delay has passed
\* since lastCall, else replace the pending timeout by one for this call.
throttledCall(t, args) ==
    LET t1 == [t EXCEPT !.calls = @ + 1]
    IN  IF t.timeSinceLastCall >= ThrottleDelay
        THEN callFunction(t1, args, 0)
        ELSE setTimeout(clearTimeout(t1), args)

\* The timeout's callback is callFunction of the call that set it.
throttleTimeout(t, e) ==
    callFunction([t EXCEPT !.timers = @ \ {e}], e.args, e.wait)

ThrottledCall ==
    /\ throttled.calls < MaxCalls
    /\ throttled' = throttledCall(throttled, throttled.calls + 1)
    /\ UNCHANGED <<sessionVars, app, toast, debounced, clipboard, copier, json, lateVars>>

ThrottleTimerFires ==
    /\ \E e \in throttled.timers :
          /\ e.left = 0
          /\ throttled' = throttleTimeout(throttled, e)
    /\ UNCHANGED <<sessionVars, app, toast, debounced, clipboard, copier, json, lateVars>>

\* One tick passes; a timeout that is due runs before time moves on.
ThrottleTick ==
    /\ \A e \in throttled.timers : e.left > 0
    /\ throttled' =
         [throttled EXCEPT
            !.timers = {[e EXCEPT !.left = @ - 1] : e \in @},
            !.timeSinceLastCall = IF @ >= ThrottleDelay THEN @ ELSE @ + 1,
            !.sinceInvoke = IF @ >= ThrottleDelay THEN @ ELSE @ + 1]
    /\ UNCHANGED <<sessionVars, app, toast, debounced, clipboard, copier, json, lateVars>>

ThrottleNext ==
    \/ ThrottledCall
    \/ ThrottleTimerFires
    \/ ThrottleTick

ThrottleSpec ==
    /\ Init
    /\ [][ThrottleNext]_vars
    /\ WF_vars(ThrottleTimerFires)
    /\ WF_vars(ThrottleTick)

(***************************************************************************)
(* useClipboard with isCopying: copyText and its two methods               *)
(***************************************************************************)
\* The texts passed to copyText; "" is the one the argument check rejects.
ClipTexts == {"", "a", "b"}

\* useClipboard(options): checkSupport() sets isSupported; hasExecCommand is
\* whether the document has execCommand.
useClipboardTracked(isSupported, hasExecCommand) ==
    [ClipboardInit EXCEPT !.created = TRUE, !.isSupported = isSupported,
                          !.hasExecCommand = hasExecCommand]

\* The end of copyText: the success branch or the thrown 'All copy methods
\* failed' caught and reported, then the finally block, then the return.
copyTextReturns(c, id, text, success) ==
    [c EXCEPT !.calls = {k \in @ : k.id # id},
              !.lastCopiedText = IF success THEN text ELSE @,
              !.isCopying = FALSE,
              !.returned = @ \cup {[id |-> id, text |-> text, value |-> success]}]

\* copyWithExecCommand(text) up to its return: the textarea, execCommand
\* returning copied, the textarea removed; copyText awaits the result.
copyWithExecCommand(c, id, text, copied) ==
    [c EXCEPT !.writes = @ \cup {[id |-> id, method |-> "exec-command"]},
              !.calls = {k \in @ : k.id # id}
                        \cup {[id |-> id, text |-> text, pc |-> "exec-command",
                               success |-> copied]}]

\* copyWithClipboardAPI(text) up to `await navigator.clipboard.writeText`.
copyWithClipboardAPI(c, id, text) ==
    [c EXCEPT !.writes = @ \cup {[id |-> id, method |-> "clipboard-api"]},
              !.calls = @ \cup {[id |-> id, text |-> text, pc |-> "clipboard-api",
                                 success |-> FALSE]}]

\* copyText after the Clipboard API attempt (success is its result, false
\* when it was not tried): the fallback, or the end of the call.
copyTextFallback(c, id, text, success, copied) ==
    IF success THEN copyTextReturns(c, id, text, TRUE)
    ELSE IF c.hasExecCommand THEN copyWithExecCommand(c, id, text, copied)
    ELSE copyTextReturns(c, id, text, FALSE)

copyTextTrackedUnguarded(c, text, copied) ==
    LET id == c.nCalls + 1
        c1 == [c EXCEPT !.nCalls = id]
        c2 == [c1 EXCEPT !.isCopying = TRUE]
    IN  IF text = ""
        THEN [c1 EXCEPT !.returned = @ \cup {[id |-> id, text |-> text, value |-> FALSE]}]
        ELSE IF c.isSupported THEN copyWithClipboardAPI(c2, id, text)
        ELSE copyTextFallback(c2, id, text, FALSE, copied)

\* copyText(text) up to its first await or its return: the argument check,
\* the isCopying guard, then the first method that is available.
copyTextTracked(c, text, copied) ==
    LET id == c.nCalls + 1
        c1 == [c EXCEPT !.nCalls = id]
        c2 == [c1 EXCEPT !.isCopying = TRUE]
    IN  IF text = "" \/ c.isCopying
        THEN [c1 EXCEPT !.returned = @ \cup {[id |-> id, text |-> text, value |-> FALSE]}]
        ELSE IF c.isSupported THEN copyWithClipboardAPI(c2, id, text)
        ELSE copyTextFallback(c2, id, text, FALSE, copied)

CreateClipboard ==
    /\ ~clipboard.created
    /\ \E isSupported \in BOOLEAN, hasExecCommand \in BOOLEAN :
          clipboard' = useClipboardTracked(isSupported, hasExecCommand)
    /\ UNCHANGED <<sessionVars, app, toast, debounced, throttled, copier, json, lateVars>>

CopyTextCall(text) ==
    /\ clipboard.created
    /\ clipboard.nCalls < MaxCopies
    /\ \E copied \in BOOLEAN : clipboard' = copyTextTracked(clipboard, text, copied)
    /\ UNCHANGED <<sessionVars, app, toast, debounced, throttled, copier, json, lateVars>>

CopyText == \E text \in ClipTexts : CopyTextCall(text)

\* navigator.clipboard.writeText settles: resolved gives success = true, a
\* rejection is caught by the safe wrapper, which returns null.
ClipboardWriteSettles ==
    /\ \E k \in clipboard.calls, resolved \in BOOLEAN, copied \in BOOLEAN :
          /\ k.pc = "clipboard-api"
          /\ clipboard' = copyTextFallback(clipboard, k.id, k.text, resolved, copied)
    /\ UNCHANGED <<sessionVars, app, toast, debounced, throttled, copier, json, lateVars>>

\* copyText resumes from `await copyWithExecCommand(text)`.
ExecCommandCopyResumes ==
    /\ \E k \in clipboard.calls :
          /\ k.pc = "exec-command"
          /\ clipboard' = copyTextReturns(clipboard, k.id, k.text, k.success)
    /\ UNCHANGED <<sessionVars, app, toast, debounced, throttled, copier, json, lateVars>>

ClipboardNext ==
    \/ CreateClipboard
    \/ CopyText
    \/ ClipboardWriteSettles
    \/ ExecCommandCopyResumes

ClipboardSpec == Init /\ [][ClipboardNext]_vars

(***************************************************************************)
(* composables/useClipboard.js: copyText                                   *)
(***************************************************************************)
\* What document.execCommand('copy') can do: return true or false, or throw
\* (a document without the command).
ExecOutcomes == {"true", "false", "threw"}

\* copyText(text) up to `await navigator.clipboard.writeText(text)` or its
\* return. available: navigator.clipboard.writeText exists and the context
\* is secure. A returned call keeps what it tried, for the claims; reported
\* tells whether handleError, and so the onError callback, was called.
copyText(c, text, available, exec) ==
    LET id == c.nCalls + 1
        c1 == [c EXCEPT !.nCalls = id]
    IN  IF text = ""
        THEN [c1 EXCEPT !.returned = @ \cup
                 {[id |-> id, text |-> text, api |-> "none", exec |-> "none",
                   value |-> FALSE, reported |-> TRUE]}]
        ELSE IF available
        THEN [c1 EXCEPT !.calls = @ \cup {[id |-> id, text |-> text]}]
        ELSE [c1 EXCEPT !.returned = @ \cup
                 {[id |-> id, text |-> text, api |-> "unavailable", exec |-> exec,
                   value |-> (exec = "true"), reported |-> (exec = "threw")]}]

\* writeText settles: `return true`, or the catch block's `return false`.
writeTextSettles(c, k, resolved) ==
    [c EXCEPT !.calls = @ \ {k},
              !.returned = @ \cup
                 {[id |-> k.id, text |-> k.text,
                   api |-> IF resolved THEN "resolved" ELSE "rejected",
                   exec |-> "none", value |-> resolved,
                   reported |-> ~resolved]}]

SimpleCopyText ==
    /\ copier.nCalls < MaxCopies
    /\ \E text \in ClipTexts, available \in BOOLEAN, exec \in ExecOutcomes :
          copier' = copyText(copier, text, available, exec)
    /\ UNCHANGED <<sessionVars, app, toast, debounced, throttled, clipboard, json, lateVars>>

WriteTextSettles ==
    /\ \E k \in copier.calls, resolved \in BOOLEAN :
          copier' = writeTextSettles(copier, k, resolved)
    /\ UNCHANGED <<sessionVars, app, toast, debounced, throttled, clipboard, json, lateVars>>

CopierNext ==
    \/ SimpleCopyText
    \/ WriteTextSettles

CopierSpec == Init /\ [][CopierNext]_vars

(***************************************************************************)
(* JSON texts and values (JSON.parse, JSON.stringify)                      *)
(***************************************************************************)
\* A text is a sequence of tokens: punctuation, the literal null, a number,
\* a string literal in its quotes, a space or a line feed.
Whitespace == {" ", "\n"}

JsonNumbers == {1, 2}

\* The contents of the string literals, property names among them.
JsonStrings == {"a", "b", "2", "10", "constructor"}

Quote(s) == "\"" \o s \o "\""

NumberTokens == {ToString(n) : n \in JsonNumbers}

StringTokens == {Quote(s) : s \in JsonStrings}

\* Values carry their type; an object is the sequence of its own properties
\* in the order Object.keys lists them.
JNull == [t |-> "null", v |-> 0]
JNumber(n) == [t |-> "number", v |-> n]
JString(s) == [t |-> "string", v |-> s]
JArray(items) == [t |-> "array", v |-> items]
JObject(members) == [t |-> "object", v |-> members]

Member(k, v) == [k |-> k, v |-> v]

KeysOf(members) == {members[i].k : i \in 1..Len(members)}

\* The property names that are array indices ("2", "10"), with their number.
IndexRange == 0..10
IndexKeys == {ToString(n) : n \in IndexRange}
IndexOfKey(k) == CHOOSE n \in IndexRange : ToString(n) = k

\* obj[k] = v on an ordinary object: an existing property keeps its place;
\* a new one is listed after the others, except that index keys are listed
\* first, in ascending numeric order.
SetProperty(members, k, v) ==
    IF k \in KeysOf(members)
    THEN [i \in 1..Len(members) |->
             IF members[i].k = k THEN Member(k, v) ELSE members[i]]
    ELSE IF k \in IndexKeys
    THEN LET before == {i \in 1..Len(members) :
                           /\ members[i].k \in IndexKeys
                           /\ IndexOfKey(members[i].k) < IndexOfKey(k)}
             n == Cardinality(before)
         IN  SubSeq(members, 1, n) \o <<Member(k, v)>>
                 \o SubSeq(members, n + 1, Len(members))
    ELSE Append(members, Member(k, v))

\* The failed and the successful result of a parsing step; next is the
\* position after the value.
ParseFail == [ok |-> FALSE, value |-> JNull, next |-> 0]
ParseOk(value, next) == [ok |-> TRUE, value |-> value, next |-> next]

RECURSIVE SkipWhitespace(_, _)
SkipWhitespace(text, i) ==
    IF i <= Len(text) /\ text[i] \in Whitespace
    THEN SkipWhitespace(text, i + 1) ELSE i

RECURSIVE ParseValue(_, _), ParseElements(_, _, _), ParseMembers(_, _, _)

\* JSON.parse's grammar: a value at position i, after whitespace.
ParseValue(text, i) ==
    LET j == SkipWhitespace(text, i)
    IN  IF j > Len(text) THEN ParseFail
        ELSE IF text[j] = "null" THEN ParseOk(JNull, j + 1)
        ELSE IF text[j] \in NumberTokens
        THEN ParseOk(JNumber(CHOOSE n \in JsonNumbers : ToString(n) = text[j]), j + 1)
        ELSE IF text[j] \in StringTokens
        THEN ParseOk(JString(CHOOSE s \in JsonStrings : Quote(s) = text[j]), j + 1)
        ELSE IF text[j] = "["
        THEN LET k == SkipWhitespace(text, j + 1)
             IN  IF k <= Len(text) /\ text[k] = "]"
                 THEN ParseOk(JArray(<<>>), k + 1)
                 ELSE ParseElements(text, j + 1, <<>>)
        ELSE IF text[j] = "{"
        THEN LET k == SkipWhitespace(text, j + 1)
             IN  IF k <= Len(text) /\ text[k] = "}"
                 THEN ParseOk(JObject(<<>>), k + 1)
                 ELSE ParseMembers(text, j + 1, <<>>)
        ELSE ParseFail

\* The elements of an array from position i to its closing bracket.
ParseElements(text, i, items) ==
    LET r == ParseValue(text, i)
        k == SkipWhitespace(text, r.next)
    IN  IF ~r.ok \/ k > Len(text) THEN ParseFail
        ELSE IF text[k] = "," THEN ParseElements(text, k + 1, Append(items, r.value))
        ELSE IF text[k] = "]" THEN ParseOk(JArray(Append(items, r.value)), k + 1)
        ELSE ParseFail

\* The members of an object from position i to its closing brace; each is
\* defined on the object as it is read (a repeated name keeps its place).
ParseMembers(text, i, members) ==
    LET j == SkipWhitespace(text, i)
        c == SkipWhitespace(text, j + 1)
    IN  IF j > Len(text) \/ c > Len(text) THEN ParseFail
        ELSE IF text[j] \notin StringTokens \/ text[c] # ":" THEN ParseFail
        ELSE LET name == CHOOSE s \in JsonStrings : Quote(s) = text[j]
                 r == ParseValue(text, c + 1)
                 k == SkipWhitespace(text, r.next)
             IN  IF ~r.ok \/ k > Len(text) THEN ParseFail
                 ELSE IF text[k] = ","
                 THEN ParseMembers(text, k + 1, SetProperty(members, name, r.value))
                 ELSE IF text[k] = "}"
                 THEN ParseOk(JObject(SetProperty(members, name, r.value)), k + 1)
                 ELSE ParseFail

\* JSON.parse(text): the value, or a SyntaxError (ok = FALSE).
JSONparse(text) ==
    LET r == ParseValue(text, 1)
    IN  IF r.ok /\ SkipWhitespace(text, r.next) > Len(text) THEN r ELSE ParseFail

\* text.trim()
RECURSIVE TrimEnd(_)
TrimEnd(text) ==
    IF text # <<>> /\ text[Len(text)] \in Whitespace
    THEN TrimEnd(SubSeq(text, 1, Len(text) - 1)) ELSE text

Trim(text) == TrimEnd(SubSeq(text, SkipWhitespace(text, 1), Len(text)))

\* Array.prototype.sort on property names: ascending by code units.
CodeUnitOrder == <<"10", "2", "a", "b", "constructor">>

RECURSIVE CopySorted(_, _, _)
\* sortedObj[k] = value[k] for the names of rank i and above, in that order.
CopySorted(members, i, sortedObj) ==
    IF i > Len(CodeUnitOrder) THEN sortedObj
    ELSE LET k == CodeUnitOrder[i]
             from == {j \in 1..Len(members) : members[j].k = k}
         IN  CopySorted(members, i + 1,
                 IF from = {} THEN sortedObj
                 ELSE SetProperty(sortedObj, k, members[CHOOSE j \in from : TRUE].v))

sortObjectKeysDropsIndexKeys(value) ==
    IF value.t = "object"
    THEN JObject(SelectSeq(CopySorted(value.v, 1, <<>>), LAMBDA member : member.k \notin IndexKeys))
    ELSE value

\* sortObjectKeys(key, value), the replacer of formatJson.
sortObjectKeys(value) ==
    IF value.t = "object" THEN JObject(CopySorted(value.v, 1, <<>>)) ELSE value

Spaces(n) == [i \in 1..n |-> " "]

RECURSIVE Concat(_)
Concat(parts) == IF parts = <<>> THEN <<>> ELSE Head(parts) \o Concat(Tail(parts))

RECURSIVE Stringify(_, _, _, _)
\* JSON.stringify(value, replacer, indentSize) at nesting level `level`;
\* sortKeys tells whether the replacer is sortObjectKeys or null.
Stringify(value, sortKeys, indentSize, level) ==
    LET w == IF sortKeys THEN sortObjectKeys(value) ELSE value
        open == IF indentSize > 0
                THEN <<"\n">> \o Spaces(indentSize * (level + 1)) ELSE <<>>
        close == IF indentSize > 0
                 THEN <<"\n">> \o Spaces(indentSize * level) ELSE <<>>
        colon == IF indentSize > 0 THEN <<":", " ">> ELSE <<":">>
        comma(i) == IF i = 1 THEN <<>> ELSE <<",">>
    IN  CASE w.t = "null" -> <<"null">>
          [] w.t = "number" -> <<ToString(w.v)>>
          [] w.t = "string" -> <<Quote(w.v)>>
          [] w.t = "array" ->
                IF w.v = <<>> THEN <<"[", "]">>
                ELSE <<"[">>
                     \o Concat([i \in 1..Len(w.v) |->
                           comma(i) \o open
                           \o Stringify(w.v[i], sortKeys, indentSize, level + 1)])
                     \o close \o <<"]">>
          [] w.t = "object" ->
                IF w.v = <<>> THEN <<"{", "}">>
                ELSE <<"{">>
                     \o Concat([i \in 1..Len(w.v) |->
                           comma(i) \o open \o <<Quote(w.v[i].k)>> \o colon
                           \o Stringify(w.v[i].v, sortKeys, indentSize, level + 1)])
                     \o close \o <<"}">>

JSONstringify(value, sortKeys, indentSize) == Stringify(value, sortKeys, indentSize, 0)

(***************************************************************************)
(* useJsonFormatter: validateJson                                          *)
(***************************************************************************)
\* JSON_FORMAT_CONFIG.MAX_FILE_SIZE, counted in tokens.
MAX_FILE_SIZE == 16

\* The longest text between the blanks of a validated text.
MaxTextLen == 3

\* The texts passed to validateJson: every text of at most MaxTextLen of these
\* tokens, alone or between runs of blanks that bring it up to the size limit
\* or over it.
ValidateTokens == {" ", "1", "[", "]", ","}

Padding == {Spaces(n) : n \in {0, MAX_FILE_SIZE - 1, MAX_FILE_SIZE}}

ValidateTexts ==
    {before \o core \o after :
        before \in Padding, after \in Padding,
        core \in UNION {[1..n -> ValidateTokens] : n \in 0..MaxTextLen}}

\* error: null
NoError == ""

Invalid(message) == [isValid |-> FALSE, error |-> message, data |-> JNull]

validateJsonTrimsFirst(jsonString) ==
    IF jsonString = <<>> THEN Invalid("Input must be a non-empty string")
    ELSE IF Trim(jsonString) = <<>> THEN Invalid("JSON content cannot be empty")
    ELSE IF Len(jsonString) > MAX_FILE_SIZE THEN Invalid("File size exceeds limit")
    ELSE LET parsed == JSONparse(Trim(jsonString))
         IN  IF parsed.ok
             THEN [isValid |-> TRUE, error |-> NoError, data |-> parsed.value]
             ELSE Invalid("SyntaxError")

\* validateJson(jsonString) for a string: the falsy (empty) string, the size
\* limit, the empty trimmed text, then JSON.parse with its error caught.
validateJson(jsonString) ==
    IF jsonString = <<>> THEN Invalid("Input must be a non-empty string")
    ELSE IF Len(jsonString) > MAX_FILE_SIZE THEN Invalid("File size exceeds limit")
    ELSE IF Trim(jsonString) = <<>> THEN Invalid("JSON content cannot be empty")
    ELSE LET parsed == JSONparse(Trim(jsonString))
         IN  IF parsed.ok
             THEN [isValid |-> TRUE, error |-> NoError, data |-> parsed.value]
             ELSE Invalid("SyntaxError")

\* Called with any of the texts.
ValidateInit ==
    ProgramInit /\ json \in {JsonCall([text |-> text]) : text \in ValidateTexts}

ValidateJson ==
    /\ json.op = "input"
    /\ json' = [op |-> "validateJson", text |-> json.text,
                result |-> validateJson(json.text)]
    /\ UNCHANGED <<sessionVars, app, toast, debounced, throttled, clipboard, copier, lateVars>>

ValidateNext == ValidateJson

ValidateSpec == ValidateInit /\ [][ValidateNext]_vars

(***************************************************************************)
(* jsonProcessing: parseJsonString                                         *)
(***************************************************************************)
Thrown(message) == [threw |-> TRUE, error |-> message, value |-> JNull]

Returned(value) == [threw |-> FALSE, error |-> NoError, value |-> value]

\* parseJsonString(jsonString, {requireNonEmpty}) for a string, with the
\* default maxFileSize: each failed check throws, and JSON.parse is called
\* outside any try block.
parseJsonString(jsonString, requireNonEmpty) ==
    LET trimmed == Trim(jsonString)
    IN  IF requireNonEmpty /\ Len(trimmed) = 0
        THEN Thrown("Input must be a non-empty string")
        ELSE IF Len(jsonString) > MAX_FILE_SIZE
        THEN Thrown("File size exceeds limit")
        ELSE LET parsed == JSONparse(trimmed)
             IN  IF parsed.ok THEN Returned(parsed.value) ELSE Thrown("SyntaxError")

ParseInit ==
    ProgramInit /\ json \in {JsonCall([text |-> text, requireNonEmpty |-> requireNonEmpty]) :
                                text \in ValidateTexts, requireNonEmpty \in BOOLEAN}

ParseJsonString ==
    /\ json.op = "input"
    /\ json' = [op |-> "parseJsonString", text |-> json.text,
                requireNonEmpty |-> json.requireNonEmpty,
                result |-> parseJsonString(json.text, json.requireNonEmpty)]
    /\ UNCHANGED <<sessionVars, app, toast, debounced, throttled, clipboard, copier, lateVars>>

ParseNext == ParseJsonString

ParseSpec == ParseInit /\ [][ParseNext]_vars

(***************************************************************************)
(* useJsonFormatter: findJsonDifferences                                   *)
(***************************************************************************)
\* The largest number of JSON nodes (primitives, arrays, objects) of the two
\* compared values together.
MaxPairNodes == 5

\* The primitives and property names of the compared values. "0" is also an
\* array index; "constructor" is also a name every object inherits.
DiffLeaves == {JNull, JNumber(1), JNumber(2)}

DiffNames == {"a", "0", "constructor"}

RECURSIVE AssignAll(_, _, _)
\* members with names[i] = items[i] assigned in turn, as JSON.parse does.
AssignAll(names, items, members) ==
    IF names = <<>> THEN members
    ELSE AssignAll(Tail(names), Tail(items), SetProperty(members, Head(names), Head(items)))

NameSeqs(n) == {names \in [1..n -> DiffNames] : \A i, j \in 1..n : names[i] = names[j] => i = j}

\* The set S itself; counting its elements makes TLC sort it, so that the
\* unions below search it quickly.
Sorted(S) == IF Cardinality(S) = 0 THEN {} ELSE S

RECURSIVE Flatten(_)
\* The union of the sets of a sequence.
Flatten(sets) ==
    IF sets = <<>> THEN {} ELSE Sorted(Head(sets)) \cup Flatten(Tail(sets))

RECURSIVE ObjectsOf(_, _)
\* The objects JSON.parse builds from len members whose values are one of
\* `items`, for every len up to the given one.
ObjectsOf(items, len) ==
    IF len = 0 THEN {}
    ELSE Sorted({JObject(AssignAll(names, it, <<>>)) :
                    names \in NameSeqs(len), it \in {i \in items : Len(i) = len}})
         \cup ObjectsOf(items, len - 1)

RECURSIVE ItemsFrom(_, _, _, _)
\* The sequences of n nodes together whose first value has at most k nodes.
ItemsFrom(table, values, n, k) ==
    IF k = 0 THEN {}
    ELSE Sorted({<<v>> \o rest :
                    v \in (IF k = n THEN values ELSE table[k].values),
                    rest \in (IF k = n THEN {<<>>} ELSE table[n - k].items)})
         \cup ItemsFrom(table, values, n, k - 1)

RECURSIVE SizedUpTo(_, _)
\* The values and the sequences of values by number of nodes, built upwards:
\* table[k].values are the values of k nodes, table[k].items the sequences of
\* values of k nodes together (left out for k = max, where nothing is built
\* from them). A value of n nodes is a primitive or an empty container
\* (n = 1), or an array or an object around items of n - 1 nodes.
SizedUpTo(table, max) ==
    LET n == Len(table) + 1
        values ==
            IF n = 1 THEN DiffLeaves \cup {JArray(<<>>), JObject(<<>>)}
            ELSE Sorted({JArray(items) : items \in table[n - 1].items})
                 \cup ObjectsOf(table[n - 1].items, Cardinality(DiffNames))
        items == IF n = max THEN {} ELSE ItemsFrom(table, values, n, n)
    IN  IF n > max THEN table
        ELSE SizedUpTo(Append(table, [values |-> values, items |-> items]), max)

\* The values JSON.parse returns that have n nodes.
ValuesOfSize(n) == SizedUpTo(<<>>, n)[n].values

\* typeof value
typeof(value) == IF value.t \in {"null", "array", "object"} THEN "object" ELSE value.t

isArray(value) == value.t = "array"

StrictEqualsNever(a, b) == FALSE

\* a === b: primitives by value; two parsed containers are never the same
\* object.
StrictEquals(a, b) ==
    IF a.t \in {"array", "object"} \/ b.t \in {"array", "object"} THEN FALSE ELSE a = b

\* Object.keys(obj): the indices of an array, the own names of an object.
ObjectKeys(obj) ==
    IF isArray(obj) THEN [i \in 1..Len(obj.v) |-> ToString(i - 1)]
    ELSE [i \in 1..Len(obj.v) |-> obj.v[i].k]

Range(s) == {s[i] : i \in 1..Len(s)}

\* What Object.prototype and Array.prototype give every object.
PrototypeNames == {"constructor"}

JFunction(name) == [t |-> "function", v |-> name]

\* key in obj
In(key, obj) == key \in Range(ObjectKeys(obj)) \/ key \in PrototypeNames

\* obj[key] for a key that is in obj
Get(obj, key) ==
    IF key \in Range(ObjectKeys(obj))
    THEN LET i == CHOOSE j \in 1..Len(obj.v) : ObjectKeys(obj)[j] = key
         IN  IF isArray(obj) THEN obj.v[i] ELSE obj.v[i].v
    ELSE JFunction(IF isArray(obj) THEN "Array" ELSE "Object")

Modified(path, oldValue, newValue) ==
    [path |-> path, type |-> "modified", oldValue |-> oldValue, newValue |-> newValue]

Added(path, newValue) == [path |-> path, type |-> "added", newValue |-> newValue]

RemovedWithoutValue(path, oldValue) == [path |-> path, type |-> "removed", oldValue |-> JNull]

Removed(path, oldValue) == [path |-> path, type |-> "removed", oldValue |-> oldValue]

\* new Set([...Object.keys(obj1), ...Object.keys(obj2)])
AllKeys(obj1, obj2) ==
    ObjectKeys(obj1) \o
    SelectSeq(ObjectKeys(obj2), LAMBDA key : key \notin Range(ObjectKeys(obj1)))

RECURSIVE findJsonDifferences(_, _, _), DiffItems(_, _, _, _), DiffMembers(_, _, _, _)
\* The array loop from index i on.
DiffItems(obj1, obj2, path, i) ==
    IF i >= Len(obj1.v) /\ i >= Len(obj2.v) THEN <<>>
    ELSE LET currentPath == path \o "[" \o ToString(i) \o "]"
             here == IF i >= Len(obj1.v) THEN <<Added(currentPath, obj2.v[i + 1])>>
                     ELSE IF i >= Len(obj2.v) THEN <<Removed(currentPath, obj1.v[i + 1])>>
                     ELSE findJsonDifferences(obj1.v[i + 1], obj2.v[i + 1], currentPath)
         IN  here \o DiffItems(obj1, obj2, path, i + 1)

\* The loop over allKeys.
DiffMembers(obj1, obj2, path, allKeys) ==
    IF allKeys = <<>> THEN <<>>
    ELSE LET key == Head(allKeys)
             currentPath == IF path # "" THEN path \o "." \o key ELSE key
             here == IF ~In(key, obj1) THEN <<Added(currentPath, Get(obj2, key))>>
                     ELSE IF ~In(key, obj2) THEN <<Removed(currentPath, Get(obj1, key))>>
                     ELSE findJsonDifferences(Get(obj1, key), Get(obj2, key), currentPath)
         IN  here \o DiffMembers(obj1, obj2, path, Tail(allKeys))

findJsonDifferences(obj1, obj2, path) ==
    IF ~StrictEquals(obj1, obj2) /\ (typeof(obj1) # "object" \/ typeof(obj2) # "object")
    THEN <<Modified(path, obj1, obj2)>>
    ELSE IF obj1.t = "null" \/ obj2.t = "null"
    THEN IF ~StrictEquals(obj1, obj2) THEN <<Modified(path, obj1, obj2)>> ELSE <<>>
    ELSE IF isArray(obj1) /\ isArray(obj2)
    THEN DiffItems(obj1, obj2, path, 0)
    ELSE IF typeof(obj1) = "object" /\ typeof(obj2) = "object"
    THEN DiffMembers(obj1, obj2, path, AllKeys(obj1, obj2))
    ELSE <<>>

\* findJsonDifferences(obj1, obj2) on two parsed values, as compareJson
\* calls it.
DiffValues == SizedUpTo(<<>>, MaxPairNodes - 1)

DiffInit ==
    /\ ProgramInit
    /\ \E n1 \in 1..(MaxPairNodes - 1) :
         \E n2 \in 1..(MaxPairNodes - n1) :
            \E obj1 \in DiffValues[n1].values, obj2 \in DiffValues[n2].values :
               json = JsonCall([obj1 |-> obj1, obj2 |-> obj2])

FindJsonDifferences ==
    /\ json.op = "input"
    /\ json' = [op |-> "findJsonDifferences", obj1 |-> json.obj1, obj2 |-> json.obj2,
                differences |-> findJsonDifferences(json.obj1, json.obj2, "")]
    /\ UNCHANGED <<sessionVars, app, toast, debounced, throttled, clipboard, copier, lateVars>>

DiffNext == FindJsonDifferences

DiffSpec == DiffInit /\ [][DiffNext]_vars

\* The largest number of nodes of a value whose text compareJson is given.
MaxCompareNodes == 2

\* The texts passed to compareJson: the values written without blanks, and a
\* text that is not JSON.
CompareTexts ==
    {JSONstringify(value, FALSE, 0) :
        value \in UNION {ValuesOfSize(n) : n \in 1..MaxCompareNodes}} \cup {<<"[">>}

\* compareJson(json1, json2), lines 217-241: what the wrapped function
\* returns, or threw = TRUE when it threw (the wrapper then reports the error
\* and returns null).
compareJson(json1, json2) ==
    LET validation1 == validateJson(json1)
        validation2 == validateJson(json2)
        differences == findJsonDifferences(validation1.data, validation2.data, "")
    IN  IF ~validation1.isValid \/ ~validation2.isValid
        THEN [threw |-> TRUE, areEqual |-> FALSE, differences |-> <<>>]
        ELSE [threw |-> FALSE, areEqual |-> Len(differences) = 0,
              differences |-> differences]

CompareInit ==
    ProgramInit /\ json \in {JsonCall([json1 |-> json1, json2 |-> json2]) :
                                json1 \in CompareTexts, json2 \in CompareTexts}

CompareJson ==
    /\ json.op = "input"
    /\ json' = [op |-> "compareJson", json1 |-> json.json1, json2 |-> json.json2,
                result |-> compareJson(json.json1, json.json2)]
    /\ UNCHANGED <<sessionVars, app, toast, debounced, throttled, clipboard, copier, lateVars>>

CompareNext == CompareJson

CompareSpec == CompareInit /\ [][CompareNext]_vars

(***************************************************************************)
(* useJsonFormatter: formatJson, minifyJson                                *)
(***************************************************************************)
\* The largest number of nodes of the syntax tree of a formatted text.
MaxJsonSize == 3

\* The primitives and member names written in the formatted texts.
FormatLeaves == {JNull, JNumber(1)}

FormatNames == {"b", "a", "2", "10"}

RECURSIVE TreesOfSize(_), TreeItemsOfSize(_)
\* The sequences of syntax trees of n nodes together.
TreeItemsOfSize(n) ==
    IF n = 0 THEN {<<>>}
    ELSE Flatten([k \in 1..n |->
                    {<<v>> \o rest : v \in TreesOfSize(k), rest \in TreeItemsOfSize(n - k)}])

\* The syntax trees of n nodes: the members of an object are listed as
\* written, in any order, a name possibly more than once.
TreesOfSize(n) ==
    IF n = 1 THEN FormatLeaves \cup {JArray(<<>>), JObject(<<>>)}
    ELSE {JArray(items) : items \in TreeItemsOfSize(n - 1)}
         \cup Flatten([len \in 1..(n - 1) |->
                    {JObject([i \in 1..len |-> Member(names[i], items[i])]) :
                        names \in [1..len -> FormatNames],
                        items \in {it \in TreeItemsOfSize(n - 1) : Len(it) = len}}])

\* The indentations of the texts passed in, and the indentSize arguments.
InputIndents == {0, 1}

IndentSizes == {1, 2}

\* The texts passed to formatJson and minifyJson: each tree written out
\* compactly or indented.
FormatTexts ==
    Flatten([n \in 1..MaxJsonSize |->
                {Stringify(tree, FALSE, indent, 0) :
                    tree \in TreesOfSize(n), indent \in InputIndents}])

FormatInit ==
    ProgramInit /\ json \in {JsonCall([text |-> text, indentSize |-> indentSize,
                                        sortKeys |-> sortKeys]) :
                                text \in FormatTexts, indentSize \in IndentSizes,
                                sortKeys \in BOOLEAN}

\* What the wrapped function gives its caller: the text, or null after
\* handleError has reported the error.
Formatted(text) == [ok |-> TRUE, text |-> text, error |-> NoError]

Failed(error) == [ok |-> FALSE, text |-> <<>>, error |-> error]

\* formatJson(jsonString, indentSize, sortKeys)
formatJson(jsonString, indentSize, sortKeys) ==
    LET validation == validateJson(jsonString)
    IN  IF ~validation.isValid THEN Failed(validation.error)
        ELSE Formatted(JSONstringify(validation.data, sortKeys, indentSize))

\* minifyJson(jsonString)
minifyJson(jsonString) ==
    LET validation == validateJson(jsonString)
    IN  IF ~validation.isValid THEN Failed(validation.error)
        ELSE Formatted(JSONstringify(validation.data, FALSE, 0))

FormatJson ==
    /\ json.op = "input"
    /\ json' = [op |-> "formatJson", text |-> json.text, indentSize |-> json.indentSize,
                sortKeys |-> json.sortKeys,
                result |-> formatJson(json.text, json.indentSize, json.sortKeys)]
    /\ UNCHANGED <<sessionVars, app, toast, debounced, throttled, clipboard, copier, lateVars>>

MinifyJson ==
    /\ json.op = "input"
    /\ json' = [op |-> "minifyJson", text |-> json.text, result |-> minifyJson(json.text)]
    /\ UNCHANGED <<sessionVars, app, toast, debounced, throttled, clipboard, copier, lateVars>>

FormatNext == FormatJson \/ MinifyJson

FormatSpec == FormatInit /\ [][FormatNext]_vars

(***************************************************************************)
(* useMonacoEditor: shouldAutoFormat, bindIdleAutoFormat                   *)
(***************************************************************************)
\* JSON_FORMAT_CONFIG.AUTO_FORMAT_DEBOUNCE_MS, in ticks.
AutoFormatDelay == 2

\* shouldAutoFormat(editor): text focus, not more than one selection, and the
\* selection empty.
shouldAutoFormat(b) ==
    IF ~b.hasTextFocus THEN FALSE
    ELSE IF b.selections > 1 THEN FALSE
    ELSE b.selectionEmpty

\* Mutant of the listener: a pending timer is left to run.
idleContentChangeKeepsTimer(b, isFlush, changes) ==
    IF ~b.bound THEN b
    ELSE IF b.isAutoFormatting \/ isFlush THEN b
    ELSE IF changes = 0 THEN b
    ELSE IF b.timerId THEN b
    ELSE [b EXCEPT !.timerId = TRUE, !.left = AutoFormatDelay]

\* The onDidChangeModelContent listener of the binding: clearTimeout of a
\* pending timer, then a new timer of the full delay.
idleContentChange(b, isFlush, changes) ==
    IF ~b.bound THEN b
    ELSE IF b.isAutoFormatting \/ isFlush THEN b
    ELSE IF changes = 0 THEN b
    ELSE [b EXCEPT !.timerId = TRUE, !.left = AutoFormatDelay]

\* The timer's callback up to `await runBuiltInFormatDocument(editor)`; runs
\* counts the format runs started since the last user change.
idleTimeout(b) ==
    LET a == [b EXCEPT !.timerId = FALSE]
    IN  IF ~shouldAutoFormat(a) THEN a
        ELSE [a EXCEPT !.isAutoFormatting = TRUE, !.runs = @ + 1]

\* The format action settles: its edits reach the listener while
\* isAutoFormatting is still set, then the finally block clears it.
idleFormatSettles(b) ==
    [idleContentChange(b, FALSE, 1) EXCEPT !.isAutoFormatting = FALSE]

\* dispose() of the binding
idleDispose(b) == [b EXCEPT !.timerId = FALSE, !.bound = FALSE]

BindIdleAutoFormat ==
    /\ ~idle.bound /\ ~idle.isAutoFormatting
    /\ idle' = [idle EXCEPT !.bound = TRUE]
    /\ UNCHANGED <<sessionVars, app, toast, debounced, throttled, clipboard, copier, json,
                   reporter, recreate>>

\* The user types: a content change that is no flush.
IdleUserChange ==
    /\ idle' = [idleContentChange(idle, FALSE, 1) EXCEPT !.sinceChange = 0, !.runs = 0]
    /\ UNCHANGED <<sessionVars, app, toast, debounced, throttled, clipboard, copier, json,
                   reporter, recreate>>

\* setValue on the model (a flush), or an event without changes.
IdleOtherChange ==
    /\ idle.bound
    /\ \E isFlush \in BOOLEAN, changes \in 0..1 :
          /\ isFlush \/ changes = 0
          /\ idle' = idleContentChange(idle, isFlush, changes)
    /\ UNCHANGED <<sessionVars, app, toast, debounced, throttled, clipboard, copier, json,
                   reporter, recreate>>

\* The user moves the focus or changes the selection.
IdleSelect ==
    /\ \E focus \in BOOLEAN, n \in 1..2, empty \in BOOLEAN :
          idle' = [idle EXCEPT !.hasTextFocus = focus, !.selections = n,
                               !.selectionEmpty = empty]
    /\ idle' # idle
    /\ UNCHANGED <<sessionVars, app, toast, debounced, throttled, clipboard, copier, json,
                   reporter, recreate>>

\* One tick passes; a timer that is due runs before time moves on.
IdleTick ==
    /\ idle.timerId => idle.left > 0
    /\ idle.timerId \/ idle.sinceChange < AutoFormatDelay
    /\ idle' = [idle EXCEPT !.left = IF idle.timerId THEN @ - 1 ELSE @,
                            !.sinceChange = IF @ < AutoFormatDelay THEN @ + 1 ELSE @]
    /\ UNCHANGED <<sessionVars, app, toast, debounced, throttled, clipboard, copier, json,
                   reporter, recreate>>

IdleTimerFires ==
    /\ idle.timerId /\ idle.left = 0
    /\ idle' = idleTimeout(idle)
    /\ UNCHANGED <<sessionVars, app, toast, debounced, throttled, clipboard, copier, json,
                   reporter, recreate>>

IdleFormatSettles ==
    /\ idle.isAutoFormatting
    /\ idle' = idleFormatSettles(idle)
    /\ UNCHANGED <<sessionVars, app, toast, debounced, throttled, clipboard, copier, json,
                   reporter, recreate>>

IdleDispose ==
    /\ idle.bound
    /\ idle' = idleDispose(idle)
    /\ UNCHANGED <<sessionVars, app, toast, debounced, throttled, clipboard, copier, json,
                   reporter, recreate>>

IdleNext ==
    \/ BindIdleAutoFormat
    \/ IdleUserChange
    \/ IdleOtherChange
    \/ IdleSelect
    \/ IdleTick
    \/ IdleTimerFires
    \/ IdleFormatSettles
    \/ IdleDispose

IdleSpec == Init /\ [][IdleNext]_vars

(***************************************************************************)
(* utils/errorHandling.js: handleError (ReporterSpec)                      *)
(*                                                                         *)
(* A context string is the sequence of its words ('editor-creation' is     *)
(* <<"editor", "creation">>); every keyword that getErrorType looks for is *)
(* a whole word of the contexts the composables pass.                      *)
(***************************************************************************)
\* The context strings passed to handleError and createSafeAsyncWrapper, by
\* the place that passes them.
EditorContexts ==
    {<<"monaco", "initialization">>, <<"editor", "creation">>,
     <<"diff", "editor", "creation">>, <<"editor", "initialization">>}

JsonContexts ==
    {<<"json", "formatting">>, <<"json", "minification">>, <<"json", "pretty", "print">>,
     <<"json", "comparison">>, <<"schema", "extraction">>}

ClipboardContexts ==
    {<<"clipboard", "api">>, <<"exec", "command">>, <<"clipboard", "copy">>,
     <<"clipboard", "read">>}

OtherContexts == {<<"diff", "mode", "toggle">>}

Contexts == EditorContexts \cup JsonContexts \cup ClipboardContexts \cup OtherContexts

\* error.name of what the wrapped code can throw.
ErrorNames == {"Error", "SyntaxError", "TypeError", "NotAllowedError", "NetworkError"}

\* String.prototype.includes with a keyword.
Includes(context, word) == \E i \in 1..Len(context) : context[i] = word

getErrorType(name, context) ==
    IF Includes(context, "monaco") \/ Includes(context, "editor") THEN "monaco_init"
    ELSE IF name = "SyntaxError" \/ Includes(context, "json") THEN "json_parse"
    ELSE IF Includes(context, "clipboard") \/ name = "NotAllowedError" THEN "clipboard"
    ELSE IF name = "NetworkError" \/ name = "TypeError" THEN "network"
    ELSE "unknown"

getErrorSeverity(name, context) ==
    CASE getErrorType(name, context) = "monaco_init" -> "critical"
      [] getErrorType(name, context) = "json_parse" -> "low"
      [] getErrorType(name, context) = "clipboard" -> "medium"
      [] getErrorType(name, context) = "network" -> "high"
      [] OTHER -> "medium"

\* handleError(error, context, onError); onError is TRUE when a function was
\* given. The message is left out.
handleErrorCall(r) ==
    [r EXCEPT !.op = "handleError",
              !.calls = IF r.onError
                        THEN Append(@, [context |-> r.context,
                                        severity |-> getErrorSeverity(r.name, r.context),
                                        type |-> getErrorType(r.name, r.context)])
                        ELSE @]

ReporterSpecInit ==
    /\ CoreInit
    /\ json = JsonInit
    /\ reporter \in {[ReporterInit EXCEPT !.op = "input", !.name = name,
                                          !.context = context, !.onError = onError] :
                        name \in ErrorNames, context \in Contexts, onError \in BOOLEAN}

HandleError ==
    /\ reporter.op = "input"
    /\ reporter' = handleErrorCall(reporter)
    /\ UNCHANGED <<sessionVars, app, toast, debounced, throttled, clipboard, copier, json,
                   idle, recreate>>

ReporterNext == HandleError

ReporterSpec == ReporterSpecInit /\ [][ReporterNext]_vars

(***************************************************************************)
(* Claims about the lazy-diff editor session (checked under Spec)          *)
(***************************************************************************)
NormalValue(s) == GetValue(s, "normalModel", s.models.normal)
OriginalValue(s) == GetValue(s, "diffModel", s.models.diffOriginal)
ModifiedValue(s) == GetValue(s, "diffModel", s.models.diffModified)

ToggleAccepted == ToggleDiffMode /\ ~session.isLoading /\ session.isInitialized
ToggleRejected == ToggleDiffMode /\ (session.isLoading \/ ~session.isInitialized)

\* C1: a toggleDiffMode call accepted in Diff mode leaves the session in
\* Single mode with a live single editor whose content is exactly the text
\* the modified pane held when the call was made.
C1_DiffToSingleCarriesModified ==
    [][(ToggleAccepted /\ session.isDiffMode) =>
         /\ ~session'.isDiffMode
         /\ Live(session, "diffModel", session.models.diffModified)
         /\ Live(session', "normalEditor", session'.normalEditor)
         /\ Live(session', "normalModel", session'.models.normal)
         /\ NormalValue(session') = ModifiedValue(session)]_vars

\* Reached: Diff mode was just left, the single editor shows the modified
\* pane's text, and that text differs from the original pane's.
C1_Witness ==
    /\ lastCall = "toggleToSingle"
    /\ NormalValue(session) = ModifiedValue(session)
    /\ OriginalValue(session) # ModifiedValue(session)

\* C2: a toggleDiffMode call accepted in Single mode leaves the session in
\* Diff mode with a live diff widget and two live, distinct models, original
\* and modified, both holding the text the single editor held when the call
\* was made; on the first entry and on every later one.
C2_SingleToDiffSeedsBoth ==
    [][(ToggleAccepted /\ ~session.isDiffMode) =>
         /\ session'.isDiffMode
         /\ Live(session, "normalModel", session.models.normal)
         /\ Live(session', "diffEditor", session'.diffEditor)
         /\ Live(session', "diffModel", session'.models.diffOriginal)
         /\ Live(session', "diffModel", session'.models.diffModified)
         /\ session'.models.diffOriginal # session'.models.diffModified
         /\ OriginalValue(session') = NormalValue(session)
         /\ ModifiedValue(session') = NormalValue(session)]_vars

\* Reached: Diff mode was just entered again, on the models of an earlier
\* entry, and both panes show the single editor's text.
C2_Witness ==
    /\ lastCall = "toggleToDiffAgain"
    /\ session.isDiffMode
    /\ OriginalValue(session) = MinifiedText
    /\ ModifiedValue(session) = MinifiedText
    /\ NormalValue(session) = MinifiedText

\* C3: a toggleDiffMode call made while isLoading is true or before
\* isInitialized is true changes nothing: the whole session state (mode,
\* editors, models and their contents, created objects, isLoading, the errors
\* reported through onError) and the calls in flight stay as they were.
C3_RejectedToggleIsNoOp ==
    [][ToggleRejected =>
         /\ session' = session
         /\ UNCHANGED <<monacoPromise, inits, formats, mounted>>]_vars

\* Reached: a toggle was rejected on an initialized session, in Diff mode,
\* because an initialize was in flight.
C3_Witness ==
    /\ lastCall = "toggleRejected"
    /\ session.isLoading /\ session.isInitialized /\ session.isDiffMode

\* The calls in flight: initialize and formatContent calls suspended at an await.
InFlight == BagCardinality(inits) + BagCardinality(formats)

\* C4: at most one of initialize, toggleDiffMode and formatContent is in
\* flight at any time.
C4_SingleInFlight == InFlight <= 1

\* C5: when cleanup returns, every widget and every text model the session
\* created has been disposed exactly once (the diff widget and both its
\* models among them), and a second cleanup disposes nothing further.
C5_CleanupDisposesAllOnce ==
    lastCall \in {"cleanup", "cleanupAgain"} =>
        \A k \in Kinds : \A h \in 1..Len(session.res[k]) :
            session.res[k][h].disposed = 1

\* Reached: cleanup ran a second time on a session that had created a second
\* single editor, the diff widget and its two models.
C5_Witness ==
    /\ lastCall = "cleanupAgain"
    /\ Len(session.res.normalEditor) = 2
    /\ Len(session.res.diffEditor) = 1
    /\ Len(session.res.diffModel) = 2

LiveObjects(s) ==
    UNION {{<<k, h>> : h \in {i \in 1..Len(s.res[k]) : s.res[k][i].disposed = 0}} :
           k \in Kinds}

TimerPending(s) == \E k \in Slots : s.autoFormat[k].timer

\* C6: once cleanup has run, no live widget or model remains, none is
\* created later, no auto-format timer is pending, and isInitialized stays false.
C6_NothingAfterCleanup ==
    ~mounted => /\ LiveObjects(session) = {}
                /\ ~TimerPending(session)
                /\ ~session.isInitialized

DiffObjectCount(s) == Len(s.res.diffEditor) + Len(s.res.diffModel)

\* C7: the diff widget and its models come into being only in an accepted
\* Single->Diff toggle, and only when none exists yet: all three are created
\* together, at most once, and later entries to Diff mode create nothing.
C7_DiffCreatedLazilyOnce ==
    [][DiffObjectCount(session') # DiffObjectCount(session) =>
         /\ ToggleAccepted /\ ~session.isDiffMode
         /\ DiffObjectCount(session) = 0
         /\ Len(session'.res.diffEditor) = 1
         /\ Len(session'.res.diffModel) = 2]_vars

\* Reached: Diff mode entered a second time, with still one diff widget and
\* two diff models, all live.
C7_Witness ==
    /\ lastCall = "toggleToDiffAgain"
    /\ Len(session.res.diffEditor) = 1
    /\ Len(session.res.diffModel) = 2
    /\ Live(session, "diffEditor", session.diffEditor)
    /\ Live(session, "diffModel", session.models.diffOriginal)
    /\ Live(session, "diffModel", session.models.diffModified)

(***************************************************************************)
(* Claims about the App.vue orchestrator (checked under AppSpec)           *)
(***************************************************************************)
\* C8: a toggleDiffMode call that leaves Diff mode ends with a single editor
\* that shows exactly the text of the modified pane.
C8_AppDiffToSingleCarriesModified ==
    [][(AppToggleAfterCreate /\ app.isDiffMode) =>
         /\ app'.monacoEditor.open
         /\ app'.monacoEditor.value = app.modified]_vars

(***************************************************************************)
(* Claims about the toast queue (checked under ToastSpec)                  *)
(***************************************************************************)
VisibleIds(q) == {q.toasts[i].id : i \in {j \in 1..Len(q.toasts) : q.toasts[j].visible}}

\* C9: the queue never shows more than maxToasts toasts: the toasts that are
\* visible (not in their exit grace period) number at most maxToasts.
C9_AtMostMaxToastsVisible == Cardinality(VisibleIds(toast)) <= MaxToasts

Min(S) == CHOOSE x \in S : \A y \in S : x <= y

RemovalPending(q, id) ==
    \E e \in {x \in q.activeTimers : x.pending} : e.id = id

\* C10: an addToast call that finds the queue at capacity evicts the visible
\* toast with the lowest id, before the new toast goes in: after the call that
\* toast is no longer visible and has no pending removal timer, and the new
\* toast is in the queue, visible.
C10_EvictsLowestVisible ==
    [][(AddToast /\ toast'.nextId # toast.nextId
          /\ Len(toast.toasts) >= MaxToasts
          /\ Cardinality(VisibleIds(toast)) >= MaxToasts) =>
         /\ Min(VisibleIds(toast)) \notin VisibleIds(toast')
         /\ ~RemovalPending(toast', Min(VisibleIds(toast)))
         /\ toast.nextId \in VisibleIds(toast')]_vars

(***************************************************************************)
(* Claims about the toast timers (ToastLiveSpec, Timer- and UpdateSpec)    *)
(***************************************************************************)
InQueue(q, id) == IndexOf(q, id) # 0

\* The toast id is in the queue with the removal timer addToast gave it, or
\* the one a paused expiry replaced it with.
AutoDismissed(q, id) ==
    /\ InQueue(q, id)
    /\ \E e \in q.activeTimers :
         e.id = id /\ e.pending /\ e.by \in {"addToast", "paused"}

\* Every such toast is in the end dropped from the collection.
AllAutoDismissed ==
    \A id \in 1..MaxTimedAdds :
        [](AutoDismissed(toast, id) => <>(~InQueue(toast, id)))

\* A removal timer that expires while the timers are not paused hides its
\* toast, and the exit grace that runs out drops its toast.
ExpiryHidesThenDrops ==
    /\ [][(RemovalTimerFires /\ ~toast.isPaused) =>
            \E e \in toast.activeTimers :
                e.pending /\ e.left = 0 /\ e.id \notin VisibleIds(toast')]_vars
    /\ [][GraceTimerFires =>
            \E e \in toast.graceTimers :
                e.left = 0 /\ ~InQueue(toast', e.id)]_vars

\* C11: a toast added with persistent = false and duration > 0 is eventually
\* removed with no call made on it, provided the timers do not stay paused
\* forever (time and again they are not paused): its timer's expiry hides
\* it, and the end of the exit grace drops it from the collection.
C11_AutoDismissedUnlessPausedForever ==
    /\ ExpiryHidesThenDrops
    /\ ([]<>(~toast.isPaused)) => AllAutoDismissed

\* C11 as amended: the same, provided that from some moment on the timers
\* are never paused again.
C11_AutoDismissedEventually ==
    /\ ExpiryHidesThenDrops
    /\ (<>[](~toast.isPaused)) => AllAutoDismissed

\* Reached: a timer expiry has hidden a toast, which is in its exit grace.
C11_Witness ==
    /\ toast.expired # {}
    /\ \A id \in toast.expired :
         /\ InQueue(toast, id) /\ id \notin VisibleIds(toast)
         /\ \E e \in toast.graceTimers : e.id = id

TimerExpiry == RemovalTimerFires \/ GraceTimerFires

NonPersistent(q, id) == InQueue(q, id) /\ ~q.toasts[IndexOf(q, id)].persistent

\* C13: after resumeTimers ends a pause, the removal timer of every visible
\* non-persistent toast has its full duration to run.
C13_ResumeRestartsFullDuration ==
    [][(ResumeTimers /\ toast.isPaused) =>
         \A e \in toast'.activeTimers :
             (e.pending /\ e.id \in VisibleIds(toast')
                /\ NonPersistent(toast', e.id)) => e.left = e.duration]_vars

TimersOf(q, id) == {e \in q.activeTimers : e.id = id}

\* The updates that carry a duration.
DurationUpdates == {updates \in Updates : "duration" \in DOMAIN updates}

\* C14: updateToast(id, updates) with a duration, on a toast that is and
\* stays non-persistent, leaves the toast exactly one timer, pending, with
\* the new duration to run (the old deadline is gone); and a removal timer
\* that expires while the timers are not paused hides its toast.
C14_UpdateReschedules ==
    /\ [][toast' # toast =>
            \A id \in 1..MaxAdds :
              (NonPersistent(toast, id) /\ NonPersistent(toast', id)) =>
                \A updates \in DurationUpdates :
                    UpdateToastCall(id, updates) =>
                        TimersOf(toast', id) =
                            {[id |-> id, left |-> updates.duration,
                              duration |-> updates.duration, pending |-> TRUE,
                              mapped |-> TRUE, by |-> "updateToast"]}]_vars
    /\ [][(RemovalTimerFires /\ ~toast.isPaused) =>
            \E e \in toast.activeTimers :
                e.pending /\ e.left = 0 /\ e.id \notin VisibleIds(toast')]_vars

\* Reached: a visible toast was given the longest duration by updateToast,
\* and its only timer has that duration to run.
C14_Witness ==
    \E e \in toast.activeTimers :
        /\ e.by = "updateToast" /\ e.pending /\ e.left = e.duration
        /\ e.duration = MaxDuration
        /\ e.id \in VisibleIds(toast)
        /\ TimersOf(toast, e.id) = {e}

(***************************************************************************)
(* Claims about debounce (checked under DebounceSpec)                      *)
(***************************************************************************)
\* C15: with immediate = false a wrapper call invokes nothing and leaves one
\* timeout a whole delay away; the timeout invokes func exactly once, a whole
\* delay after the last call and with that call's arguments; and nothing but
\* the timeout or flush() invokes func. So a burst of calls less than the
\* delay apart gives one invocation, of the last call, the delay after it.
C15_BurstInvokesLastCallOnce ==
    [][~debounced.immediate =>
         /\ DebouncedCall =>
               /\ debounced'.log = debounced.log
               /\ debounced'.timeoutId
               /\ debounced'.left = DebounceDelay
         /\ DebounceTimerFires =>
               /\ debounced'.log =
                     Append(debounced.log, [args |-> debounced.calls, by |-> "timer"])
               /\ debounced.sinceCall = DebounceDelay
               /\ ~debounced'.timeoutId
         /\ debounced'.log # debounced.log =>
               DebounceTimerFires \/ DebounceFlush]_vars

\* A burst of at least two calls has been answered by the timeout.
C15_Witness ==
    /\ debounced.created
    /\ ~debounced.immediate
    /\ debounced.burst >= 2
    /\ ~debounced.timeoutId
    /\ debounced.log = <<[args |-> debounced.calls, by |-> "timer"]>>

\* A call is pending when a timeout is set whose callback will invoke func:
\* the callback invokes only when immediate is false.
WaitingCall(d) == d.timeoutId /\ ~d.immediate

\* C16: in either mode flush() runs the pending call and nothing else: with a
\* call pending it invokes func at once with that call's arguments and leaves
\* no timeout to invoke it again; with no call pending it invokes nothing.
C16_FlushRunsOnlyPendingCall ==
    [][DebounceFlush =>
         IF WaitingCall(debounced)
         THEN /\ debounced'.log =
                    Append(debounced.log, [args |-> debounced.calls, by |-> "flush"])
              /\ ~debounced'.timeoutId
         ELSE debounced'.log = debounced.log]_vars

(***************************************************************************)
(* Claims about throttle (checked under ThrottleSpec)                      *)
(***************************************************************************)
\* C17: any two invocations of func are at least the delay apart: a step that
\* invokes func after an earlier invocation finds a whole delay passed since.
C17_InvocationsDelayApart ==
    [][/\ Len(throttled'.log) > Len(throttled.log)
       /\ throttled.log # <<>>
       => throttled.sinceInvoke >= ThrottleDelay]_vars

\* The call that passed k has a deferred invocation pending.
Deferred(t, k) == \E e \in t.timers : e.args = k

\* func has been invoked with the arguments of the call that passed k.
Invoked(t, k) == \E i \in 1..Len(t.log) : t.log[i] = k

Wrote(c, id) == \E w \in c.writes : w.id = id

\* C19: a copyText call made while another is in flight returns false and
\* starts no write, so at most one call is past the guard at any time; the
\* guard is held exactly while a call is in flight, and a call made with no
\* call in flight is accepted: it starts a write when a method exists.
C19_ConcurrentCopyRejected ==
    /\ [](Cardinality(clipboard.calls) <= 1)
    /\ [](clipboard.isCopying <=> clipboard.calls # {})
    /\ [][\A text \in ClipTexts \ {""} :
             CopyTextCall(text) =>
                IF clipboard.calls # {}
                THEN /\ [id |-> clipboard'.nCalls, text |-> text, value |-> FALSE]
                           \in clipboard'.returned
                     /\ clipboard'.writes = clipboard.writes
                     /\ clipboard'.calls = clipboard.calls
                ELSE clipboard.isSupported \/ clipboard.hasExecCommand
                        => Wrote(clipboard', clipboard'.nCalls)]_vars

\* The second call was made while the first was in flight and was rejected;
\* the third, made after the first had finished, started a write.
C19_Witness ==
    /\ Wrote(clipboard, 1)
    /\ \E text \in ClipTexts \ {""} :
          [id |-> 2, text |-> text, value |-> FALSE] \in clipboard.returned
    /\ ~Wrote(clipboard, 2)
    /\ \E r \in clipboard.returned : r.id = 1
    /\ Wrote(clipboard, 3)

\* C20: a copyText call with a non-empty text that found the clipboard API
\* unavailable, or whose API write failed, attempted the execCommand copy, and
\* the call returned true exactly when one of the two methods succeeded.
C20_FallsBackToExecCommand ==
    \A r \in copier.returned :
        r.text # "" =>
            /\ r.api \in {"rejected", "unavailable"} => r.exec # "none"
            /\ r.value <=> (r.api = "resolved" \/ r.exec = "true")

\* C21: a copyText call that failed returned false (no call throws to its
\* caller) and reported the failure through onError.
C21_FailureReturnsFalseAndReports ==
    \A r \in copier.returned : ~r.value => r.reported

(***************************************************************************)
(* Claims about the JSON operations                                        *)
(***************************************************************************)
WhitespaceOnly(text) == \A i \in 1..Len(text) : text[i] \in Whitespace

\* C22: validateJson classifies a text in this order: longer than the limit
\* gives the size error; else empty or whitespace-only gives an empty-input
\* error; else unparseable gives the parser's error; else valid with the
\* parsed value. isValid is true exactly when error is null.
C22_ValidateClassifiesInOrder ==
    json.op = "validateJson" =>
        LET text == json.text
            r == json.result
        IN  /\ r.isValid <=> r.error = NoError
            /\ IF Len(text) > MAX_FILE_SIZE
               THEN ~r.isValid /\ r.error = "File size exceeds limit"
               ELSE IF WhitespaceOnly(text)
               THEN /\ ~r.isValid
                    /\ r.error \in {"Input must be a non-empty string",
                                    "JSON content cannot be empty"}
               ELSE IF ~JSONparse(text).ok
               THEN ~r.isValid /\ r.error = "SyntaxError"
               ELSE r.isValid /\ r.data = JSONparse(text).value

\* A whitespace-only text longer than the limit has been validated.
C22_Witness ==
    /\ json.op = "validateJson"
    /\ Len(json.text) > MAX_FILE_SIZE
    /\ WhitespaceOnly(json.text)
    /\ ~json.result.isValid

\* C23: no JSON processing operation throws to its caller; a failure comes
\* back as a result value.
C23_ParseNeverThrows ==
    json.op = "parseJsonString" => ~json.result.threw

\* C24: the differences of a value with itself are empty.
C24_DiffOfSameIsEmpty ==
    (json.op = "findJsonDifferences" /\ json.obj1 = json.obj2) =>
        json.differences = <<>>

\* A container has been compared with itself.
C24_Witness ==
    /\ json.op = "findJsonDifferences"
    /\ json.obj1 = json.obj2
    /\ json.obj1.t \in {"array", "object"}
    /\ json.obj1.v # <<>>

\* C25: every added entry of diff(a, b) has a removed entry of diff(b, a)
\* with the same path and the same value.
C25_AddedMirrorsRemoved ==
    json.op = "findJsonDifferences" =>
        LET forward == json.differences
            backward == findJsonDifferences(json.obj2, json.obj1, "")
        IN  \A i \in 1..Len(forward) :
               forward[i].type = "added" =>
                  \E j \in 1..Len(backward) :
                     /\ backward[j].type = "removed"
                     /\ backward[j].path = forward[i].path
                     /\ backward[j].oldValue = forward[i].newValue

\* A comparison has reported an added member below the top level.
C25_Witness ==
    /\ json.op = "findJsonDifferences"
    /\ \E i \in 1..Len(json.differences) :
          /\ json.differences[i].type = "added"
          /\ json.differences[i].path \in {"a[0]", "a.a", "[0].a", "[0][0]"}

\* C26: two values of different JSON types give exactly one modified entry
\* that carries both whole values.
C26_TypeMismatchIsOneModified ==
    (json.op = "findJsonDifferences" /\ json.obj1.t # json.obj2.t) =>
        /\ Len(json.differences) = 1
        /\ json.differences[1].type = "modified"
        /\ json.differences[1].path = ""
        /\ json.differences[1].oldValue = json.obj1
        /\ json.differences[1].newValue = json.obj2

EntriesAt(differences, path) == {i \in 1..Len(differences) : differences[i].path = path}

OnlyIn(obj1, obj2) == Range(ObjectKeys(obj1)) \ Range(ObjectKeys(obj2))

KeyPath(obj, key) == IF isArray(obj) THEN "[" \o key \o "]" ELSE key

\* C27: comparing two objects or two arrays, each member that only the second
\* has gives exactly one added entry at its key or index with its value, and
\* each member that only the first has gives exactly one removed entry.
C27_OneSidedMemberIsAddedOrRemoved ==
    (/\ json.op = "findJsonDifferences"
     /\ json.obj1.t = json.obj2.t
     /\ json.obj1.t \in {"array", "object"}) =>
        /\ \A key \in OnlyIn(json.obj2, json.obj1) :
              \E i \in 1..Len(json.differences) :
                 /\ EntriesAt(json.differences, KeyPath(json.obj2, key)) = {i}
                 /\ json.differences[i].type = "added"
                 /\ json.differences[i].newValue = Get(json.obj2, key)
        /\ \A key \in OnlyIn(json.obj1, json.obj2) :
              \E i \in 1..Len(json.differences) :
                 /\ EntriesAt(json.differences, KeyPath(json.obj1, key)) = {i}
                 /\ json.differences[i].type = "removed"
                 /\ json.differences[i].oldValue = Get(json.obj1, key)

\* The member names of a text, in the order they are written.
KeyTokens(text) ==
    SelectSeq([i \in 1..Len(text) |-> IF i < Len(text) /\ text[i + 1] = ":" THEN text[i] ELSE ""],
              LAMBDA token : token # "")

LexRank(token) == CHOOSE i \in 1..Len(CodeUnitOrder) : Quote(CodeUnitOrder[i]) = token

\* C28: with sortKeys false formatJson writes the members in the order of the
\* input (here: of an input that repeats no name); with sortKeys true it
\* writes them in ascending lexicographic order (here: of an input with one
\* level of members).
C28_KeysInInputOrSortedOrder ==
    (json.op = "formatJson" /\ json.result.ok) =>
        LET input == KeyTokens(json.text)
            output == KeyTokens(json.result.text)
        IN  /\ (~json.sortKeys /\ Len(input) = Len(output)) => output = input
            /\ (json.sortKeys /\ validateJson(json.text).data.t = "object"
                   /\ \A i \in 1..Len(validateJson(json.text).data.v) :
                         validateJson(json.text).data.v[i].v.t \in {"null", "number"}) =>
                  \A i, j \in 1..Len(output) :
                     i < j => LexRank(output[i]) < LexRank(output[j])

RECURSIVE JsonEquals(_, _)
\* The same JSON value: members are matched by name, in whatever order.
JsonEquals(a, b) ==
    IF a.t # b.t THEN FALSE
    ELSE IF a.t = "array"
    THEN Len(a.v) = Len(b.v) /\ \A i \in 1..Len(a.v) : JsonEquals(a.v[i], b.v[i])
    ELSE IF a.t = "object"
    THEN /\ KeysOf(a.v) = KeysOf(b.v)
         /\ \A key \in KeysOf(a.v) : JsonEquals(Get(a, key), Get(b, key))
    ELSE a = b

\* The output parses to the value the input parses to.
ParsesToSameValue(input, output) ==
    /\ ~parseJsonString(output, TRUE).threw
    /\ JsonEquals(parseJsonString(output, TRUE).value, parseJsonString(input, TRUE).value)

FormatAgainSame ==
    formatJson(json.result.text, json.indentSize, json.sortKeys) = Formatted(json.result.text)

NormalLive(s) == Live(s, "normalEditor", s.normalEditor)

DiffLive(s) == Live(s, "diffEditor", s.diffEditor)

C31_ListenersThenModelsThenWidget == ~session.outOfTurn

\* The diff editor and both of its models, and a normal editor with its
\* model, have been disposed.
C31_Witness ==
    /\ \E h \in 1..Len(session.res.diffEditor) : session.res.diffEditor[h].disposed = 1
    /\ \E h \in 1..Len(session.res.normalEditor) : session.res.normalEditor[h].disposed = 1
    /\ \A h \in 1..Len(session.res.diffModel) : session.res.diffModel[h].disposed = 1
    /\ ~session.outOfTurn

C33_NoTimerRunsAfterCleanup ==
    [][toast.cleanedUp => ~(RemovalTimerFires \/ GraceTimerFires \/ ResetTimerFires)]_vars

(***************************************************************************)
(* Claims about handleError (checked under ReporterSpec)                   *)
(***************************************************************************)
\* C34: handleError calls onError exactly once, and the severity it reports
\* follows from where the failure came from: critical for the contexts of
\* editor and Monaco initialization, medium for the clipboard's contexts, low
\* for a SyntaxError of the JSON functions.
C34_SeverityFixedByOrigin ==
    (reporter.op = "handleError" /\ reporter.onError) =>
        /\ Len(reporter.calls) = 1
        /\ reporter.context \in EditorContexts => reporter.calls[1].severity = "critical"
        /\ reporter.context \in ClipboardContexts => reporter.calls[1].severity = "medium"
        /\ (reporter.context \in JsonContexts /\ reporter.name = "SyntaxError") =>
               reporter.calls[1].severity = "low"

(***************************************************************************)
(* Claims about compareJson (checked under CompareSpec)                    *)
(***************************************************************************)
\* C35: for two valid JSON texts compareJson reports areEqual = true, with an
\* empty list of differences, exactly when the two parsed values are the
\* same JSON value.
C35_AreEqualIffStructurallyEqual ==
    (json.op = "compareJson" /\ ~json.result.threw) =>
        /\ json.result.areEqual <=> json.result.differences = <<>>
        /\ json.result.areEqual <=>
              JsonEquals(validateJson(json.json1).data, validateJson(json.json2).data)

(***************************************************************************)
(* Claims about clearAll and the Map of timers (ToastTimerSpec)            *)
(***************************************************************************)
ToastIds(q) == {q.toasts[i].id : i \in 1..Len(q.toasts)}

\* C36: a toast added after clearAll returned is not affected by that
\* clearAll. clearAll hides every toast of the queue and nothing shows a
\* hidden toast again, so a toast that is visible when the delayed reset of a
\* clearAll runs was added after that call: it stays in the collection,
\* visible.
C36_AddedAfterClearAllStays ==
    [][ResetTimerFires => VisibleIds(toast) \subseteq VisibleIds(toast')]_vars

\* The removal timers the Map holds that have not fired yet.
MapTimers(q) == {e \in q.activeTimers : e.pending /\ e.mapped}

\* C37: every pending removal timer of activeTimers belongs to a toast of the
\* collection that is visible and not persistent, and no toast has two of
\* them.
C37_TimersBelongToVisibleToasts ==
    /\ \A e \in MapTimers(toast) :
          /\ e.id \in ToastIds(toast)
          /\ toast.toasts[IndexOf(toast, e.id)].visible
          /\ ~toast.toasts[IndexOf(toast, e.id)].persistent
    /\ \A e, f \in MapTimers(toast) : e.id = f.id => e = f

(***************************************************************************)
(* Claims about the session when widget operations throw (ThrowSpec)       *)
(***************************************************************************)
\* C38: whenever isDiffMode is true the diff widget exists and both of its
\* text models exist and are not disposed, also after a toggle in which a
\* widget operation threw and the toggles that follow it.
C38_DiffModeHasWidgetAndModels ==
    session.isDiffMode =>
        /\ DiffLive(session)
        /\ Live(session, "diffModel", session.models.diffOriginal)
        /\ Live(session, "diffModel", session.models.diffModified)

(***************************************************************************)
(* Claims about App.vue's isLoading flag (checked under AppLiveSpec)       *)
(***************************************************************************)
\* C39: a toggleDiffMode call of App.vue that passed the isLoading guard
\* eventually sets isLoading back to false, whether the loader resolves or
\* rejects.
C39_ToggleEventuallyClearsLoading ==
    (app.pc = "toggleInit") ~> ~app.isLoading

(***************************************************************************)
(* Claims about the recreate-on-toggle variant (checked under RecreateSpec)*)
(***************************************************************************)
\* C40: when cleanup was called after every initializeEditor and
\* toggleDiffMode call, overlapping or not, had finished, and has returned,
\* each editor, diff editor and text model that was created has been disposed
\* exactly once.
C40_RecreateDisposesAllOnce ==
    (recreate.cleanedUp /\ ~recreate.overlapped) =>
        \A h \in 1..Len(recreate.res) : recreate.res[h].disposed = 1

====
